---- MODULE Spec2Model ----
(***************************************************************************)
(* A model of the lottery-draw extraction pipeline:                        *)
(*   layer2/extract_from_snaps.py   (lanes, validation, dedupe_keep_best)  *)
(*   layer2/parse_and_classify.py   (per-host parsers, normalize_date)     *)
(*   layer2/ingest_bodies_only.py   (payload parsers)                      *)
(*                                                                         *)
(* Encoding of Python values.  A value whose type the code inspects is a   *)
(* record [t |-> tag, v |-> sequence of integers]:                         *)
(*   None        [t |-> "none",    v |-> <<>>]                             *)
(*   int n       [t |-> "int",     v |-> <<n>>]                            *)
(*   list[int]   [t |-> "list",    v |-> the list]                         *)
(*   list[str]   [t |-> "strlist", v |-> the numbers the strings spell]    *)
(*   str         [t |-> "str",     v |-> the 1-2 digit tokens that         *)
(*                                       re.findall(r'\d{1,2}') finds]     *)
(* A date text is [shape, day]: the shape of the text and the day number   *)
(* it denotes (for shape "none": an identifier of the text).  A date       *)
(* value is [kind, day]: kind "iso" (YYYY-MM-DD of that day), "text" (a    *)
(* string that is no date, identified by day) or "none" (Python None).     *)
(***************************************************************************)
EXTENDS Integers, Sequences, FiniteSets, TLC

VARIABLES
    call,       \* unit harness: the function under test and its arguments
    ret,        \* unit harness: its result
    upc,        \* unit harness: "ready" | "done"
    driver,     \* the script that runs: "extract_from_snaps" | "parse_and_classify"
    pc,         \* where main is: "next" (top of the loop over captures), a lane
                \* ("A0", "A", "B", "C"; "P", "G"), "done" (outputs written), "crashed"
    idx,        \* number of captures the loop has taken
    cap,        \* the capture being processed: [url, files, body]
    all_records,    \* main's list records
    dataset,        \* the dataset written (clean / unique)
    clock,      \* the wall clock utcnow() reads
    snaps,      \* the capture directory when the specification fixes it;
                \* <<>> when captures are drawn as they are read
    run,        \* 1 in the first run of the driver, 2 in a second run
    prev,       \* the dataset the first run wrote
    trace,      \* history: the lanes run for this capture, [lane, raised, recs]
    base,       \* history: all_records when this capture was taken
    queue,      \* fetch.py: the list of URLs still to fetch
    seen_urls,  \* fetch.py: the URLs link expansion may not add again
    RESULTS,    \* fetch.py: the result of every URL finished so far
    HOST_STATS, \* fetch.py: per host, the numbers of ok and failed results
    index,      \* fetch.py: the number of URLs taken from the queue
    fpc,        \* where fetch.main is: "idle", "loop" (the queue test),
                \* "attempt" (top of the retry loop), "after" (below it),
                \* "stats" (result appended), "done" (final summary written),
                \* "exited" (left through the SIGINT handler)
    cur,        \* fetch.py: url, attempt and rec of the URL being fetched
    summary,    \* l1_summary.json: [exists, count, ok, skipped, interrupted, fetched]
    depth,      \* history: for every URL queued, 0 for a line of the targets
                \* file, d + 1 for a link of a page of depth d
    popped      \* history: the URLs taken from the queue, in order

unitVars == <<call, ret, upc>>
runVars == <<driver, pc, idx, cap, all_records, dataset, clock, snaps, run, prev, trace, base>>
fetchVars == <<queue, seen_urls, RESULTS, HOST_STATS, index, fpc, cur, summary, depth, popped>>
vars == <<call, ret, upc, driver, pc, idx, cap, all_records, dataset, clock, snaps, run, prev, trace, base,
          queue, seen_urls, RESULTS, HOST_STATS, index, fpc, cur, summary, depth, popped>>

----------------------------------------------------------------------------
(* Bounds of the model *)

MaxLen == 6          \* longest numbers list drawn as an input
MaxRecs == 3         \* longest record list handed to dedupe_keep_best
Today0 == 1828       \* day number of NOW when a run starts (1828 = 5*365 + 3)
NumCaptures == 2     \* captures in the directory when they are drawn as read
MaxSnaps == 2        \* captures in a fixed directory

(* Program constants *)

LAST_N_DAYS == 14

----------------------------------------------------------------------------
(* Python values *)

NoneV == [t |-> "none", v |-> <<>>]
IntV(n) == [t |-> "int", v |-> <<n>>]
ListV(s) == [t |-> "list", v |-> s]
StrV(s) == [t |-> "str", v |-> s]
StrListV(s) == [t |-> "strlist", v |-> s]

Take(s, n) == SubSeq(s, 1, IF Len(s) < n THEN Len(s) ELSE n)

Range(s) == {s[i] : i \in DOMAIN s}

(* An element of a JSON list that is a number but no int: n.5 is held as  *)
(* 1000 + n, above every ball number, so that it fails each range test as *)
(* it fails isinstance(x, int).                                            *)
Float(n) == 1000 + n
IsIntElem(x) == x < 1000

----------------------------------------------------------------------------
(* GAME_RULES: main = (count, lo, hi), bonus = (count, lo, hi) *)

GameNames == {"Powerball", "Mega Millions", "Lucky for Life", "Cash4Life", "Lotto America"}

GAME_RULES ==
    [g \in GameNames |->
        CASE g = "Powerball"      -> [main |-> <<5, 1, 69>>, bonus |-> <<1, 1, 26>>]
          [] g = "Mega Millions"  -> [main |-> <<5, 1, 70>>, bonus |-> <<1, 1, 25>>]
          [] g = "Lucky for Life" -> [main |-> <<5, 1, 48>>, bonus |-> <<1, 1, 18>>]
          [] g = "Cash4Life"      -> [main |-> <<5, 1, 60>>, bonus |-> <<1, 1, 4>>]
          [] g = "Lotto America"  -> [main |-> <<5, 1, 52>>, bonus |-> <<1, 1, 10>>]]

(* a game value that is a JSON list or object, not a string *)
GameObj == "[list]"

(* validate_numbers raises TypeError at GAME_RULES.get(game) when game is *)
(* unhashable, and at len(nums) when nums is None or an int; len is       *)
(* reached only for a game of the table.                                  *)
validate_numbers_raises(game, nums, bonus) ==
    \/ game = GameObj
    \/ /\ game \in DOMAIN GAME_RULES
       /\ nums.t \in {"none", "int"}

(* A mutant: the upper bound of the main range is not checked. *)
validate_numbers_nohi(game, nums, bonus) ==
    IF game \notin DOMAIN GAME_RULES THEN FALSE
    ELSE LET rule == GAME_RULES[game]
             lo == rule.main[2]
             blo == rule.bonus[2]
             bhi == rule.bonus[3]
         IN  /\ nums.t = "list"
             /\ Len(nums.v) = rule.main[1]
             /\ \A i \in DOMAIN nums.v : lo <= nums.v[i]
             /\ bonus.t = "int"
             /\ blo <= bonus.v[1] /\ bonus.v[1] <= bhi

validate_numbers(game, nums, bonus) ==
    IF game \notin DOMAIN GAME_RULES THEN FALSE
    ELSE LET rule == GAME_RULES[game]
             main_count == rule.main[1]
             lo == rule.main[2]
             hi == rule.main[3]
             blo == rule.bonus[2]
             bhi == rule.bonus[3]
         IN  IF nums.t = "str" THEN FALSE          \* characters are no ints
             ELSE IF Len(nums.v) # main_count THEN FALSE
             ELSE IF ~(/\ nums.t = "list"
                       /\ \A i \in DOMAIN nums.v : lo <= nums.v[i] /\ nums.v[i] <= hi)
                  THEN FALSE
             ELSE IF bonus.t = "none" THEN FALSE
             ELSE IF bonus.t = "int" THEN blo <= bonus.v[1] /\ bonus.v[1] <= bhi
             ELSE IF bonus.t = "list" /\ Len(bonus.v) = 1
                  THEN blo <= bonus.v[1] /\ bonus.v[1] <= bhi
             ELSE FALSE

----------------------------------------------------------------------------
(* Dates *)

NoDate == [kind |-> "none", day |-> 0]
IsoDate(d) == [kind |-> "iso", day |-> d]
TextDate(id) == [kind |-> "text", day |-> id]

DateText(shape, day) == [shape |-> shape, day |-> day]
EmptyText == DateText("empty", 0)

(* the shapes dateutil's fuzzy parser and the regexes of normalize_date read *)
DateShapes == {"iso", "mdy", "month", "label"}

(* the month word that _sniff_date_from_text's second pattern captures *)
MonthWord == DateText("none", 0)

YearOf(d) == d \div 365

(* A mutant: the recency window is not enforced. *)
sane_date_nowindow(date_text, NOW) ==
    IF date_text.shape \notin DateShapes THEN NoDate
    ELSE IsoDate(date_text.day)

(* extract_from_snaps.sane_date (and ingest_bodies_only.sane_date, which  *)
(* writes 14 for LAST_N_DAYS): dateutil raises on a text without a date.  *)
sane_date(date_text, NOW) ==
    IF date_text.shape \notin DateShapes THEN NoDate
    ELSE LET dt == date_text.day
             delta == NOW - dt
         IN  IF YearOf(dt) < YearOf(NOW) - 1 \/ YearOf(dt) > YearOf(NOW) THEN NoDate
             ELSE IF delta < 0 \/ delta > LAST_N_DAYS THEN NoDate
             ELSE IsoDate(dt)

(* parse_and_classify.normalize_date: today for a falsy text, the parsed  *)
(* date for the four shapes, else the first 10 characters of the text.    *)
normalize_date(any_text, today) ==
    IF any_text.shape = "empty" THEN IsoDate(today)
    ELSE IF any_text.shape = "iso" THEN IsoDate(any_text.day)
    ELSE IF any_text.shape \in {"mdy", "label"} THEN IsoDate(any_text.day)
    ELSE IF any_text.shape = "month" THEN IsoDate(any_text.day)
    ELSE TextDate(any_text.day)

(* parse_and_classify._sniff_date_from_text: the first pattern that       *)
(* matches hands m.group(1) to normalize_date when the pattern has a      *)
(* group; the month pattern's only group is the month word.               *)
sniff_date_from_text(text, today) ==
    IF text.shape = "label" THEN normalize_date(DateText("mdy", text.day), today)
    ELSE IF text.shape = "month" THEN normalize_date(MonthWord, today)
    ELSE IF text.shape = "iso" THEN normalize_date(text, today)
    ELSE normalize_date(text, today)

----------------------------------------------------------------------------
(* Records.  Of a record's fields the model keeps date, game, numbers,    *)
(* bonus (a key only the vision collaborator's records can carry),        *)
(* source_url, fetched_at and extraction_method; jackpot_usd, winners and *)
(* confidence are carried through by the code and decide nothing.         *)

Rec(date, game, numbers, bonus, url, fetched_at, method) ==
    [date |-> date, game |-> game, numbers |-> numbers, bonus |-> bonus,
     source_url |-> url, fetched_at |-> fetched_at, extraction_method |-> method]

(* to_record: numbers = nums + [bonus] when bonus is an int (a non-empty  *)
(* list bonus is replaced by its first element); fetched_at is utcnow().  *)
to_record(game, iso_date, nums, bonus, url, method, utcnow) ==
    LET b == IF bonus.t = "list" /\ Len(bonus.v) > 0 THEN IntV(bonus.v[1]) ELSE bonus
    IN  Rec(iso_date, game,
            nums \o (IF b.t = "int" THEN b.v ELSE <<>>),
            NoneV, url, utcnow, method)

KeyOf(r) == <<r.game, r.date, r.numbers>>

rank(method) ==
    CASE method = "json" -> 3
      [] method = "html" -> 2
      [] method = "vision" -> 1
      [] OTHER -> 0

(* A mutant: a record replaces the kept one when its rank is as high. *)
dedupe_step_ge(seen, r) ==
    IF \E i \in DOMAIN seen : KeyOf(seen[i]) = KeyOf(r)
    THEN LET i == CHOOSE i \in DOMAIN seen : KeyOf(seen[i]) = KeyOf(r)
         IN  IF rank(r.extraction_method) >= rank(seen[i].extraction_method)
             THEN [seen EXCEPT ![i] = r]
             ELSE seen
    ELSE Append(seen, r)

(* one iteration of the loop of dedupe_keep_best; seen is the dict's      *)
(* values in insertion order of their keys                                *)
dedupe_step(seen, r) ==
    IF \E i \in DOMAIN seen : KeyOf(seen[i]) = KeyOf(r)
    THEN LET i == CHOOSE i \in DOMAIN seen : KeyOf(seen[i]) = KeyOf(r)
         IN  IF rank(r.extraction_method) > rank(seen[i].extraction_method)
             THEN [seen EXCEPT ![i] = r]
             ELSE seen
    ELSE Append(seen, r)

RECURSIVE dedupe_from(_, _, _)
dedupe_from(seen, records, i) ==
    IF i > Len(records) THEN seen
    ELSE dedupe_from(dedupe_step(seen, records[i]), records, i + 1)

(* A mutant: the first record seen for a key is kept, whatever its rank. *)
dedupe_keep_first(records) ==
    LET RECURSIVE go(_, _)
        go(seen, i) ==
            IF i > Len(records) THEN seen
            ELSE go(IF \E k \in DOMAIN seen : KeyOf(seen[k]) = KeyOf(records[i])
                    THEN seen ELSE Append(seen, records[i]), i + 1)
    IN  go(<<>>, 1)

dedupe_keep_best(records) == dedupe_from(<<>>, records, 1)

----------------------------------------------------------------------------
(* Capture contents.                                                      *)
(* A JSON document is [kind, items]:                                      *)
(*   "bad"      json.loads raises                                         *)
(*   "pb_list"  a list whose first element is a dict with one of the keys *)
(*              field_winning_numbers, winning_numbers, field_draw_date,  *)
(*              draw_date                                                 *)
(*   "asmx"     a dict {"d": "<str>"} whose string parses as JSON         *)
(*   "tree"     any other JSON value                                      *)
(* and items are the elements of the list (for "tree": the nodes in the   *)
(* order rec visits them).  An item is [isdict, date, nums, bonus, words]:*)
(* the values under the date, numbers and bonus keys the parser reads     *)
(* (EmptyText / NoneV when the key is absent) and the game keywords that  *)
(* occur in json.dumps of the item.                                       *)

Item(isdict, date, nums, bonus, words) ==
    [isdict |-> isdict, date |-> date, nums |-> nums, bonus |-> bonus, words |-> words]

Doc(kind, items) == [kind |-> kind, items |-> items]

Result(raised, recs) == [raised |-> raised, recs |-> recs]
Raised == Result(TRUE, <<>>)

(* re.findall(r'\d{1,2}', json.dumps(x)) *)
tokens(x) == IF x.t = "none" THEN <<>> ELSE x.v

(* bool(x) is False *)
Falsy(x) ==
    \/ x.t = "none"
    \/ x.t = "int" /\ x.v = <<0>>
    \/ x.t \in {"list", "strlist"} /\ x.v = <<>>

(* a or None *)
OrNone(x) == IF Falsy(x) THEN NoneV ELSE x

(* m = re.findall(r'\d{1,2}', s); int(m[0]) if m else None *)
first_token(x) == IF x.v = <<>> THEN NoneV ELSE IntV(x.v[1])

NoGame == "None"

(* GAME_HINTS, one keyword per game that stands for the game's hints *)
GAME_HINTS ==
    << <<"Powerball", "powerball">>, <<"Mega Millions", "mega">>,
       <<"Lucky for Life", "lucky for life">>, <<"Cash4Life", "cash4life">>,
       <<"Lotto America", "lotto america">> >>

UrlWords(url) ==
    CASE url = "https://www.powerball.com/draws" -> {"powerball"}
      [] url = "https://www.megamillions.com/numbers" -> {"mega", "megamillions"}
      [] url = "https://example.org/powerball" -> {"powerball"}
      [] OTHER -> {}

(* detect_game: the first game of GAME_HINTS with a hint in the context *)
detect_game(words, url) ==
    LET ctx == words \cup UrlWords(url)
        hits == {i \in DOMAIN GAME_HINTS : GAME_HINTS[i][2] \in ctx}
    IN  IF hits = {} THEN NoGame
        ELSE GAME_HINTS[CHOOSE i \in hits : \A j \in hits : i <= j][1]

----------------------------------------------------------------------------
(* extract_from_snaps.py, lane A: network JSON *)

RECURSIVE parse_powerball_recent_from(_, _, _, _, _, _)
parse_powerball_recent_from(items, i, out, url, NOW, utcnow) ==
    IF i > Len(items) THEN Result(FALSE, out)
    ELSE LET it == items[i] IN
      IF ~it.isdict THEN Raised                       \* it.get: AttributeError
      ELSE IF it.date.shape = "empty"
        THEN parse_powerball_recent_from(items, i + 1, out, url, NOW, utcnow)
      ELSE LET iso == sane_date(it.date, NOW)
               all == tokens(OrNone(it.nums))
               nums == Take(all, 5)
               pb0 == OrNone(it.bonus)
               pb1 == IF pb0.t = "str" THEN first_token(pb0) ELSE pb0
               pb == IF pb1.t = "none" /\ Len(all) >= 6 THEN IntV(all[6]) ELSE pb1
           IN  IF iso = NoDate
               THEN parse_powerball_recent_from(items, i + 1, out, url, NOW, utcnow)
               ELSE parse_powerball_recent_from(items, i + 1,
                       IF validate_numbers("Powerball", ListV(nums), pb)
                       THEN Append(out, to_record("Powerball", iso, nums, pb, url, "json", utcnow))
                       ELSE out,
                       url, NOW, utcnow)

parse_powerball_recent(items, url, NOW, utcnow) ==
    parse_powerball_recent_from(items, 1, <<>>, url, NOW, utcnow)

RECURSIVE snaps_megamillions_asmx_from(_, _, _, _, _, _)
snaps_megamillions_asmx_from(items, i, out, url, NOW, utcnow) ==
    IF i > Len(items) THEN Result(FALSE, out)
    ELSE LET it == items[i] IN
      IF ~it.isdict THEN Raised                       \* it.get: AttributeError
      ELSE IF it.date.shape = "empty" \/ Falsy(it.nums)
        THEN snaps_megamillions_asmx_from(items, i + 1, out, url, NOW, utcnow)
      ELSE LET iso == sane_date(it.date, NOW)
               nums == Take(tokens(it.nums), 5)
               mb0 == OrNone(it.bonus)
               mb == IF mb0.t = "str" THEN first_token(mb0) ELSE mb0
           IN  IF iso = NoDate
               THEN snaps_megamillions_asmx_from(items, i + 1, out, url, NOW, utcnow)
               ELSE snaps_megamillions_asmx_from(items, i + 1,
                       IF validate_numbers("Mega Millions", ListV(nums), mb)
                       THEN Append(out, to_record("Mega Millions", iso, nums, mb, url, "json", utcnow))
                       ELSE out,
                       url, NOW, utcnow)

(* extract_from_snaps.parse_megamillions_asmx *)
snaps_megamillions_asmx(items, url, NOW, utcnow) ==
    snaps_megamillions_asmx_from(items, 1, <<>>, url, NOW, utcnow)

(* rec, the tree walk of extract_from_network_json: the bonus it reads *)
rec_bonus(it) == IF it.bonus.t \in {"str", "list"} THEN first_token(it.bonus) ELSE it.bonus

(* the node passes every test of rec *)
rec_hit(it, url, NOW) ==
    /\ it.isdict
    /\ it.date.shape # "empty" /\ ~Falsy(it.nums)
    /\ sane_date(it.date, NOW) # NoDate
    /\ detect_game(it.words, url) # NoGame
    /\ validate_numbers(detect_game(it.words, url), ListV(Take(tokens(it.nums), 5)),
                        rec_bonus(it))

(* rec never raises; it appends one record for every node that passes, *)
(* in the order of the walk, with no limit on their number             *)
rec_from(items, url, NOW, utcnow) ==
    LET nodes == SelectSeq(items, LAMBDA it : rec_hit(it, url, NOW))
    IN  [k \in 1..Len(nodes) |->
            to_record(detect_game(nodes[k].words, url), sane_date(nodes[k].date, NOW),
                      Take(tokens(nodes[k].nums), 5), rec_bonus(nodes[k]), url, "json",
                      utcnow)]

(* A "pb_obj" document is one JSON object with the keys field_draw_date, *)
(* field_winning_numbers and field_powerball, its values strings.  rec   *)
(* knows field_winning_numbers but neither of the other two keys: its    *)
(* date stays None and it appends nothing.                               *)
extract_from_network_json(njson, url, NOW, utcnow) ==
    CASE njson.kind = "bad" -> Result(FALSE, <<>>)
      [] njson.kind = "pb_obj" -> Result(FALSE, <<>>)
      [] njson.kind = "pb_list" -> parse_powerball_recent(njson.items, url, NOW, utcnow)
      [] njson.kind = "asmx" ->
            LET r == snaps_megamillions_asmx(njson.items, url, NOW, utcnow)
            IN  IF r.raised THEN Result(FALSE, <<>>)    \* except: pass, then rec({"d": ...})
                ELSE r
      [] OTHER -> Result(FALSE, rec_from(njson.items, url, NOW, utcnow))

----------------------------------------------------------------------------
(* extract_from_snaps.py, lane B: rendered HTML.                          *)
(* A page is [soft404, words, date, nums, bonus, rules]: whether the text *)
(* matches the soft-404 pattern, the game keywords in it, the text that   *)
(* DATE_RX captures (EmptyText: no match), the numbers of the run that    *)
(* NUMS_RX matches (<<>>: no match), the number after a bonus keyword     *)
(* (NoneV: no match of BONUS_RX), and ADAPTERS.get(host) for the page's   *)
(* host: a list of rules [game, bad], bad when a regex of the rule does   *)
(* not compile.  A rule without patterns of its own reads the page with   *)
(* DATE_RX, NUMS_RX and BONUS_RX.                                         *)

Page(soft404, words, date, nums, bonus, rules) ==
    [soft404 |-> soft404, words |-> words, date |-> date, nums |-> nums,
     bonus |-> bonus, rules |-> rules]

Rule(game, bad) == [game |-> game, bad |-> bad]

RECURSIVE apply_adapter_html_from(_, _, _, _, _)
apply_adapter_html_from(html, i, url, NOW, utcnow) ==
    IF i > Len(html.rules) THEN Result(FALSE, <<>>)
    ELSE LET rule == html.rules[i]
             iso == sane_date(html.date, NOW)
             nums == Take(html.nums, 5)
         IN  IF rule.bad THEN Raised                   \* re.compile: re.error
             ELSE IF /\ iso # NoDate
                     /\ Len(html.nums) >= 5
                     /\ rule.game # NoGame
                     /\ validate_numbers(rule.game, ListV(nums), html.bonus)
                  THEN Result(FALSE, <<to_record(rule.game, iso, nums, html.bonus, url, "html", utcnow)>>)
                  ELSE apply_adapter_html_from(html, i + 1, url, NOW, utcnow)

apply_adapter_html(html, url, NOW, utcnow) ==
    apply_adapter_html_from(html, 1, url, NOW, utcnow)

extract_from_html(html, url, NOW, utcnow) ==
    LET recs == apply_adapter_html(html, url, NOW, utcnow)
        game == detect_game(html.words, url)
        nums == Take(html.nums, 5)
        iso == sane_date(html.date, NOW)
    IN  IF recs.raised THEN Raised
        ELSE IF recs.recs # <<>> THEN recs
        ELSE IF html.soft404 THEN Result(FALSE, <<>>)
        ELSE IF game = NoGame THEN Result(FALSE, <<>>)
        ELSE IF html.nums = <<>> THEN Result(FALSE, <<>>)
        ELSE IF iso = NoDate THEN Result(FALSE, <<>>)
        ELSE IF ~validate_numbers(game, ListV(nums), html.bonus) THEN Result(FALSE, <<>>)
        ELSE Result(FALSE, <<to_record(game, iso, nums, html.bonus, url, "html", utcnow)>>)

----------------------------------------------------------------------------
(* extract_from_snaps.py, lane C: vision.                                 *)
(* The collaborator's output is [kind, items]: "bad" (no JSON), "other"   *)
(* (JSON, not a list) or "list"; an item is [isdict, date, game, numbers, *)
(* bonus, method, source_url, fetched_at] with "" for an absent method or *)
(* source_url.                                                            *)

VRec(isdict, date, game, numbers, bonus, method, source_url, fetched_at) ==
    [isdict |-> isdict, date |-> date, game |-> game, numbers |-> numbers,
     bonus |-> bonus, method |-> method, source_url |-> source_url,
     fetched_at |-> fetched_at]

RECURSIVE extract_with_vision_from(_, _, _, _, _)
extract_with_vision_from(items, i, ok, url, NOW) ==
    IF i > Len(items) THEN Result(FALSE, ok)
    ELSE LET r == items[i] IN
      IF ~r.isdict THEN Raised                         \* r.get: AttributeError
      ELSE LET iso == sane_date(r.date, NOW) IN
        IF iso = NoDate THEN extract_with_vision_from(items, i + 1, ok, url, NOW)
        ELSE IF r.numbers.t \in {"none", "int"} THEN Raised   \* [:5]: TypeError
        ELSE LET nums == [t |-> r.numbers.t, v |-> Take(r.numbers.v, 5)]
                 bonus == IF Len(r.numbers.v) = 6
                          THEN (IF r.numbers.t = "list" THEN IntV(r.numbers.v[6])
                                ELSE StrV(<<r.numbers.v[6]>>))
                          ELSE r.bonus
                 keep == r.game # NoGame /\ validate_numbers(r.game, nums, bonus)
             IN  IF r.game # NoGame /\ validate_numbers_raises(r.game, nums, bonus)
                 THEN Raised
                 ELSE
                 extract_with_vision_from(items, i + 1,
                     IF keep
                     THEN Append(ok, Rec(iso, r.game, r.numbers.v, r.bonus,
                                         IF r.source_url = "" THEN url ELSE r.source_url,
                                         r.fetched_at,
                                         IF r.method = "" THEN "vision" ELSE r.method))
                     ELSE ok,
                     url, NOW)

(* the whole body runs under try/except Exception: return [] *)
extract_with_vision(out, url, NOW) ==
    IF out.kind # "list" THEN Result(FALSE, <<>>)
    ELSE LET r == extract_with_vision_from(out.items, 1, <<>>, url, NOW)
         IN  IF r.raised THEN Result(FALSE, <<>>) ELSE r

----------------------------------------------------------------------------
(* parse_and_classify.py.  A body is a document as above, of kind "bad"   *)
(* (no JSON and no JSON blob in it, no number run in its text), "text"    *)
(* (no JSON; items[1] holds what the text patterns find: the six-number   *)
(* run, the date text, the bonus keyword among its words), "asmx", or a   *)
(* JSON list ("pb_list", "tree").  The text of a JSON body holds no       *)
(* number run that the text patterns match.                               *)

IsList(doc) == doc.kind \in {"pb_list", "tree"}

(* A "markup" body is a page whose first item is its rendered text and    *)
(* whose other items are the rows of the first JSON blob embedded in it.  *)
(* _looks_like_json(body): the body starts with a brace or a bracket      *)
looks_like_json(body) == body.kind \in {"pb_list", "tree", "asmx", "pb_obj"}

(* first_json_blob(text) of a body that is not JSON itself *)
HasBlob(body) == body.kind = "markup"

BlobItems(body) == IF body.kind = "markup" THEN Tail(body.items) ELSE body.items

HasText(body) == body.kind \in {"text", "markup"}

(* the first 10 characters of json.dumps(row) *)
JsonPrefix == DateText("none", 9)

(* make_record: extraction_method is no key of these records *)
make_record(date, game, numbers, url, fetched_at) ==
    Rec(date, game, numbers, NoneV, url, fetched_at, "")

InRange(n, lo, hi) == lo <= n /\ n <= hi

(* _extract_numbers_from_value and extract_numbers_generic for a list or  *)
(* a string: six numbers, five in 1..75 and one in 1..35 (list) or 1..30  *)
(* (string), or None (<<>>)                                               *)
extract_numbers_from_value(x) ==
    IF x.t \in {"list", "strlist"}
    THEN IF /\ InRange(Len(x.v), 6, 7)
            /\ \A i \in 1..5 : InRange(x.v[i], 1, 75)
            /\ InRange(x.v[6], 1, 35)
         THEN Take(x.v, 6) ELSE <<>>
    ELSE IF x.t = "str"
    THEN IF /\ Len(x.v) >= 6
            /\ \A i \in 1..5 : InRange(x.v[i], 1, 75)
            /\ InRange(x.v[6], 1, 30)
         THEN Take(x.v, 6) ELSE <<>>
    ELSE <<>>

(* GAME_KEYWORDS, one keyword per game, then "Unknown" *)
GAME_KEYWORDS ==
    << <<"Powerball", "powerball">>, <<"Mega Millions", "megamillions">>,
       <<"Lucky for Life", "lucky for life">>, <<"Lotto America", "lotto america">>,
       <<"Cash4Life", "cash4life">> >>

guess_game_from_context(words, url) ==
    LET ctx == words \cup UrlWords(url)
        hits == {i \in DOMAIN GAME_KEYWORDS : GAME_KEYWORDS[i][2] \in ctx}
    IN  IF hits = {} THEN "Unknown"
        ELSE GAME_KEYWORDS[CHOOSE i \in hits : \A j \in hits : i <= j][1]

(* _extract_date_from_row: a date key with a truthy value, else the sniff *)
(* over json.dumps(row)                                                   *)
extract_date_from_row(it, today) ==
    IF it.date.shape # "empty" THEN normalize_date(it.date, today)
    ELSE sniff_date_from_text(JsonPrefix, today)

(* safety cap per file for generic JSON harvesting *)
JSON_MAX_RECORDS == 500

(* a dict node with a numbers-like value *)
generic_hit(it) == it.isdict /\ extract_numbers_from_value(it.nums) # <<>>

(* the loop over _iter_dicts_anywhere(root): one record for every node   *)
(* with numbers, in the order of the walk, and break once count reaches  *)
(* the cap                                                               *)
parse_json_generic_from(items, url, today) ==
    LET nodes == SelectSeq(items, generic_hit)
        count == IF Len(nodes) < JSON_MAX_RECORDS THEN Len(nodes) ELSE JSON_MAX_RECORDS
    IN  [k \in 1..count |->
            make_record(extract_date_from_row(nodes[k], today),
                        guess_game_from_context(nodes[k].words, url),
                        extract_numbers_from_value(nodes[k].nums), url, 0)]

(* the walk visits the dict nodes only; the outer dict of an ASMX         *)
(* envelope holds one string and yields nothing                           *)
parse_json_generic(body, url, today) ==
    IF IsList(body) \/ HasBlob(body) \/ body.kind = "pb_obj"
    THEN parse_json_generic_from(BlobItems(body), url, today)
    ELSE <<>>

RECURSIVE parse_powerball_from(_, _, _, _, _)
parse_powerball_from(items, i, out, url, today) ==
    IF i > Len(items) THEN Result(FALSE, out)
    ELSE LET row == items[i] IN
      IF ~row.isdict THEN Raised                      \* row.get: AttributeError
      ELSE LET numbers == IF Falsy(row.nums) THEN <<>>
                          ELSE extract_numbers_from_value(row.nums)
               date == IF row.date.shape # "empty" THEN normalize_date(row.date, today)
                       ELSE sniff_date_from_text(JsonPrefix, today)
           IN  parse_powerball_from(items, i + 1,
                   IF numbers = <<>> THEN out
                   ELSE Append(out, make_record(date, "Powerball", numbers, url, 0)),
                   url, today)

(* _numbers_near_keyword(plain, "Powerball") over the text of a "pb_obj"  *)
(* document: the five numbers of field_winning_numbers, then the key      *)
(* field_powerball and the number in its value                            *)
pb_obj_numbers(it) ==
    IF /\ it.nums.t = "str" /\ Len(it.nums.v) = 5
       /\ it.bonus.t = "str" /\ Len(it.bonus.v) = 1
       /\ \A i \in 1..5 : InRange(it.nums.v[i], 1, 75)
       /\ InRange(it.bonus.v[1], 1, 30)
    THEN it.nums.v \o it.bonus.v
    ELSE <<>>

(* the rendered-text fallbacks of parse_powerball and parse_unknown; in   *)
(* the text of a "pb_obj" document the first keyword found is Powerball   *)
text_scan(body, game, url, today) ==
    IF body.kind = "pb_obj"
    THEN IF pb_obj_numbers(body.items[1]) # <<>>
         THEN <<make_record(sniff_date_from_text(
                                IF body.items[1].date.shape = "empty" THEN JsonPrefix
                                ELSE body.items[1].date, today),
                            "Powerball", pb_obj_numbers(body.items[1]), url, 0)>>
         ELSE <<>>
    ELSE
    IF HasText(body) /\ extract_numbers_from_value(body.items[1].nums) # <<>>
    THEN <<make_record(sniff_date_from_text(body.items[1].date, today), game,
                       extract_numbers_from_value(body.items[1].nums), url, 0)>>
    ELSE <<>>

parse_powerball(body, url, today) ==
    LET listed == IF IsList(body) \/ HasBlob(body)
                  THEN parse_powerball_from(BlobItems(body), 1, <<>>, url, today)
                  ELSE Result(FALSE, <<>>)
        scanned == text_scan(body, "Powerball", url, today)
    IN  IF listed.raised THEN Raised
        ELSE IF listed.recs # <<>> THEN listed
        ELSE IF scanned # <<>> THEN Result(FALSE, scanned)
        ELSE Result(FALSE, parse_json_generic(body, url, today))

RECURSIVE parse_megamillions_asmx_from(_, _, _, _, _)
parse_megamillions_asmx_from(rows, i, out, url, today) ==
    IF i > Len(rows) THEN Result(FALSE, out)
    ELSE LET row == rows[i] IN
      IF ~row.isdict THEN Raised                      \* row.get: AttributeError
      ELSE LET numbers == extract_numbers_from_value(row.nums)
               date == IF row.date.shape # "empty" THEN normalize_date(row.date, today)
                       ELSE sniff_date_from_text(JsonPrefix, today)
           IN  parse_megamillions_asmx_from(rows, i + 1,
                   Append(out, make_record(date, "Mega Millions", numbers, url, 0)),
                   url, today)

(* first_json_blob returns the envelope itself, not its inner list: the   *)
(* one row has none of the keys, its date is sniffed from json.dumps(row) *)
(* (which holds the date text of the inner items) and its numbers are []  *)
parse_megamillions_asmx(body, url, today) ==
    IF body.kind \in {"bad", "text"} THEN Result(FALSE, <<>>)
    ELSE IF body.kind \in {"asmx", "pb_obj"}
    THEN LET inner == IF body.items # <<>> /\ body.items[1].date.shape # "empty"
                      THEN body.items[1].date ELSE JsonPrefix
         IN  Result(FALSE, <<make_record(sniff_date_from_text(inner, today),
                                         "Mega Millions", <<>>, url, 0)>>)
    ELSE parse_megamillions_asmx_from(BlobItems(body), 1, <<>>, url, today)

(* the keyword table of parse_unknown's HTML fallback *)
UNKNOWN_KEYS ==
    << <<"powerball", "Powerball">>, <<"mega ball", "Mega Millions">>,
       <<"lucky ball", "Lucky for Life">>, <<"cash ball", "Cash4Life">>,
       <<"star ball", "Lotto America">> >>

(* the HTML fallback of parse_unknown: the keyword table, then any 5+1 *)
unknown_text(body, url, today) ==
    LET words == IF HasText(body) THEN body.items[1].words ELSE {}
        hits == {i \in DOMAIN UNKNOWN_KEYS : UNKNOWN_KEYS[i][1] \in words}
        game == IF hits = {} THEN guess_game_from_context(words, url)
                ELSE UNKNOWN_KEYS[CHOOSE i \in hits : \A j \in hits : i <= j][2]
    IN  text_scan(body, game, url, today)

(* a default chain that scans the rendered text before any JSON *)
parse_unknown_textfirst(body, url, today) ==
    IF unknown_text(body, url, today) # <<>>
    THEN Result(FALSE, unknown_text(body, url, today))
    ELSE Result(FALSE, parse_json_generic(body, url, today))

parse_unknown(body, url, today) ==
    LET mined == IF looks_like_json(body) THEN parse_json_generic(body, url, today)
                 ELSE <<>>
        embedded == IF HasBlob(body) THEN parse_json_generic(body, url, today)
                    ELSE <<>>
    IN  IF mined # <<>> THEN Result(FALSE, mined)
        ELSE IF embedded # <<>> THEN Result(FALSE, embedded)
        ELSE Result(FALSE, unknown_text(body, url, today))

Host(url) ==
    CASE url = "https://www.powerball.com/draws" -> "www.powerball.com"
      [] url = "https://www.megamillions.com/numbers" -> "www.megamillions.com"
      [] OTHER -> "example.org"

(* PARSERS.get(host, parse_unknown)(body, meta) *)
route(body, url, today) ==
    CASE Host(url) = "www.powerball.com" -> parse_powerball(body, url, today)
      [] Host(url) = "www.megamillions.com" -> parse_megamillions_asmx(body, url, today)
      [] OTHER -> parse_unknown(body, url, today)

(* _looks_like_json(body) or first_json_blob(text) is not None *)
has_json(body) == looks_like_json(body) \/ HasBlob(body)

(* a seen-set loop that forgets what it has seen *)
unique_all(records, i, unique) == records

(* the de-duplication loop of parse_and_classify.main: first seen wins *)
RECURSIVE unique_from(_, _, _)
unique_from(records, i, unique) ==
    IF i > Len(records) THEN unique
    ELSE unique_from(records, i + 1,
            IF \E k \in DOMAIN unique : KeyOf(unique[k]) = KeyOf(records[i])
            THEN unique ELSE Append(unique, records[i]))

(* unique.sort(key=lambda r: (r["date"], r["game"]), reverse=True): a     *)
(* stable sort on strings.  An ISO date orders by its day; a text that is *)
(* no date starts with a letter or a brace and sorts above every digit.   *)
DateOrd(d) == IF d.kind = "iso" THEN d.day ELSE 100000 + d.day

GameOrd(g) ==
    CASE g = "Cash4Life" -> 1 [] g = "Lotto America" -> 2 [] g = "Lucky for Life" -> 3
      [] g = "Mega Millions" -> 4 [] g = "Powerball" -> 5 [] OTHER -> 6

KeyLess(a, b) ==
    \/ DateOrd(a.date) < DateOrd(b.date)
    \/ DateOrd(a.date) = DateOrd(b.date) /\ GameOrd(a.game) < GameOrd(b.game)

(* r goes behind every element that is not smaller than it *)
insert_desc(sorted, r) ==
    LET n == Cardinality({i \in DOMAIN sorted : ~KeyLess(sorted[i], r)})
    IN  SubSeq(sorted, 1, n) \o <<r>> \o SubSeq(sorted, n + 1, Len(sorted))

RECURSIVE sort_from(_, _, _)
sort_from(records, i, sorted) ==
    IF i > Len(records) THEN sorted
    ELSE sort_from(records, i + 1, insert_desc(sorted, records[i]))

sort_newest_first(records) == sort_from(records, 1, <<>>)

----------------------------------------------------------------------------
(* extract_from_snaps.main, lane A: the entries of <base>.network.json.   *)
(* A network file is [ok, entries]: whether json.load returns a list, and *)
(* its entries [isdict, body].                                            *)

Net(ok, entries) == [ok |-> ok, entries |-> entries]
Entry(isdict, body) == [isdict |-> isdict, body |-> body]

RECURSIVE lane_A_from(_, _, _, _, _)
lane_A_from(entries, i, url, NOW, utcnow) ==
    IF i > Len(entries) THEN Result(FALSE, <<>>)
    ELSE IF ~entries[i].isdict THEN Raised            \* n.get: AttributeError
    ELSE LET recs == extract_from_network_json(entries[i].body, url, NOW, utcnow)
         IN  IF recs.raised THEN Raised
             ELSE IF recs.recs # <<>> THEN recs        \* got = True; break
             ELSE lane_A_from(entries, i + 1, url, NOW, utcnow)

lane_A(nets, url, NOW, utcnow) ==
    IF ~nets.ok THEN Raised
    ELSE lane_A_from(nets.entries, 1, url, NOW, utcnow)

(* what a lane of extract_from_snaps.main computes from its file *)
run_lane(lane, content, url, NOW, utcnow) ==
    CASE lane = "A0" -> extract_from_network_json(content, url, NOW, utcnow)
      [] lane = "A" -> lane_A(content, url, NOW, utcnow)
      [] lane = "B" -> extract_from_html(content, url, NOW, utcnow)
      [] lane = "C" -> extract_with_vision(content, url, NOW)

----------------------------------------------------------------------------
(* ingest_bodies_only.py.  The payload is as_json(body): None for a body  *)
(* that is no JSON, the inner list of an ASMX envelope (unwrapped once),  *)
(* the list or the object itself otherwise.  The keys of an item follow   *)
(* from the kind of its document: field_draw_date, field_winning_numbers, *)
(* field_powerball in "pb_list" and "pb_obj"; DrawDate, WinningNumbers,   *)
(* MegaBall in "asmx"; date, numbers, bonus in "tree".  No item has a     *)
(* "Drawing" bundle or a cash_ball key.                                   *)

(* it.get("field_draw_date") or it.get("draw_date") or it.get("date") *)
pb_payload_date(kind, it) == IF kind \in {"pb_list", "pb_obj", "tree"} THEN it.date ELSE EmptyText
(* it.get("field_winning_numbers") or ... or it.get("numbers") or "" *)
pb_payload_nums(kind, it) == IF kind \in {"pb_list", "pb_obj", "tree"} THEN OrNone(it.nums) ELSE NoneV
(* it.get("field_powerball") or it.get("powerball") *)
pb_payload_bonus(kind, it) == IF kind \in {"pb_list", "pb_obj"} THEN OrNone(it.bonus) ELSE NoneV

(* it.get("drawDate") or it.get("DrawDate") or it.get("date"), and so on *)
mm_payload_date(kind, it) == IF kind \in {"asmx", "tree"} THEN it.date ELSE EmptyText
mm_payload_nums(kind, it) == IF kind \in {"asmx", "tree"} THEN OrNone(it.nums) ELSE NoneV
mm_payload_bonus(kind, it) == IF kind = "asmx" THEN OrNone(it.bonus) ELSE NoneV

(* it.get("draw_date") or it.get("DrawDate") or it.get("date"), and so on *)
c4_payload_date(kind, it) == IF kind \in {"asmx", "tree"} THEN it.date ELSE EmptyText
c4_payload_nums(kind, it) == IF kind \in {"asmx", "tree"} THEN OrNone(it.nums) ELSE NoneV

(* the acceptance test the three parsers share: five mains in 1..hi, an *)
(* int bonus in 1..bhi                                                  *)
payload_ok(mains, bonus, hi, bhi) ==
    /\ Len(mains) = 5
    /\ \A i \in 1..5 : IsIntElem(mains[i]) /\ InRange(mains[i], 1, hi)
    /\ bonus.t = "int" /\ InRange(bonus.v[1], 1, bhi)

(* rec: numbers = mains + [bonus] *)
payload_rec(game, iso, mains, bonus, url, utcnow) ==
    Rec(iso, game, mains \o bonus.v, NoneV, url, utcnow, "json")

(* the record one payload parser builds from one item, <<>> when it skips *)
(* the item: date is None for an absent key (sane_date("None") fails)     *)
payload_item(game, date, nums, bonus0, str_only, hi, bhi, url, NOW, utcnow) ==
    LET iso == sane_date(date, NOW)
        allnums == tokens(nums)
        b1 == IF bonus0.t = "str" THEN first_token(bonus0) ELSE bonus0
        fill == IF str_only THEN b1.t = "none" ELSE b1.t # "int"
        bonus == IF fill /\ Len(allnums) >= 6 THEN IntV(allnums[6]) ELSE b1
        mains == Take(allnums, 5)
    IN  IF iso = NoDate THEN <<>>
        ELSE IF payload_ok(mains, bonus, hi, bhi)
        THEN <<payload_rec(game, iso, mains, bonus, url, utcnow)>>
        ELSE <<>>

RECURSIVE parse_powerball_payload_from(_, _, _, _, _, _, _)
parse_powerball_payload_from(kind, arr, i, out, url, NOW, utcnow) ==
    IF i > Len(arr) THEN Result(FALSE, out)
    ELSE IF ~arr[i].isdict THEN Raised                 \* it.get: AttributeError
    ELSE parse_powerball_payload_from(kind, arr, i + 1,
            out \o payload_item("Powerball", pb_payload_date(kind, arr[i]),
                                pb_payload_nums(kind, arr[i]), pb_payload_bonus(kind, arr[i]),
                                TRUE, 69, 26, url, NOW, utcnow),
            url, NOW, utcnow)

(* arr is data when data is a list, data.get("data") when it is a dict *)
parse_powerball_payload(data, url, NOW, utcnow) ==
    IF data.kind = "pb_obj" THEN Result(FALSE, <<>>)
    ELSE parse_powerball_payload_from(data.kind, data.items, 1, <<>>, url, NOW, utcnow)

(* the flat variant; an item that is no dict is skipped; arr is [data] *)
(* when data is no list                                                *)
RECURSIVE parse_megamillions_payload_from(_, _, _, _, _, _, _)
parse_megamillions_payload_from(kind, arr, i, out, url, NOW, utcnow) ==
    IF i > Len(arr) THEN Result(FALSE, out)
    ELSE parse_megamillions_payload_from(kind, arr, i + 1,
            IF ~arr[i].isdict THEN out
            ELSE out \o payload_item("Mega Millions", mm_payload_date(kind, arr[i]),
                                     mm_payload_nums(kind, arr[i]),
                                     mm_payload_bonus(kind, arr[i]),
                                     FALSE, 70, 25, url, NOW, utcnow),
            url, NOW, utcnow)

parse_megamillions_payload(data, url, NOW, utcnow) ==
    parse_megamillions_payload_from(data.kind, data.items, 1, <<>>, url, NOW, utcnow)

RECURSIVE parse_cash4life_payload_from(_, _, _, _, _, _, _)
parse_cash4life_payload_from(kind, arr, i, out, url, NOW, utcnow) ==
    IF i > Len(arr) THEN Result(FALSE, out)
    ELSE IF ~arr[i].isdict THEN Raised                 \* it.get: AttributeError
    ELSE parse_cash4life_payload_from(kind, arr, i + 1,
            out \o payload_item("Cash4Life", c4_payload_date(kind, arr[i]),
                                c4_payload_nums(kind, arr[i]), NoneV,
                                TRUE, 60, 4, url, NOW, utcnow),
            url, NOW, utcnow)

(* arr is data when data is a list, else [] *)
parse_cash4life_payload(data, url, NOW, utcnow) ==
    IF data.kind = "pb_obj" THEN Result(FALSE, <<>>)
    ELSE parse_cash4life_payload_from(data.kind, data.items, 1, <<>>, url, NOW, utcnow)

(* as_json(body_text) is None *)
as_json_none(body) == body.kind \notin {"pb_list", "pb_obj", "asmx", "tree"}

(* the body of main's loop for one *.body.json file: the three parsers   *)
(* run one after the other on the same payload and their rows are added; *)
(* an exception of a parser is caught nowhere                            *)
ingest_file(body, url, NOW, utcnow) ==
    IF as_json_none(body) THEN Result(FALSE, <<>>)
    ELSE LET pb == parse_powerball_payload(body, url, NOW, utcnow)
             mm == parse_megamillions_payload(body, url, NOW, utcnow)
             c4 == parse_cash4life_payload(body, url, NOW, utcnow)
         IN  IF pb.raised \/ mm.raised \/ c4.raised THEN Raised
             ELSE Result(FALSE, pb.recs \o mm.recs \o c4.recs)

----------------------------------------------------------------------------
(* Unit harness: Init draws a call, Apply runs it. *)

MainVals == {0, 1, 48, 49, 70, 71}
BonusVals == {0, 1, 4, 5, 26, 27}

(* lists of one repeated value with at most one position changed *)
NumLists ==
    { [i \in 1..n |-> IF i = p THEN b ELSE a] :
        n \in 0..MaxLen, p \in 0..MaxLen, a \in MainVals, b \in MainVals }

ValidateCalls ==
    [fn : {"validate_numbers"},
     game : GameNames,
     nums : {ListV(s) : s \in NumLists},
     bonus : {IntV(b) : b \in BonusVals}]

UnitRecs ==
    { Rec(IsoDate(Today0), "Powerball", <<1, 2, 3, 4, 5, n>>, NoneV, u, 0, m) :
        n \in {6, 7}, u \in {"u1", "u2"}, m \in {"json", "html", "vision", "ocr"} }

SeqsUpTo(S, n) == UNION { [1..k -> S] : k \in 0..n }

DedupeCalls == [fn : {"dedupe_keep_best"}, records : SeqsUpTo(UnitRecs, MaxRecs)]

DateTexts ==
    {EmptyText}
    \cup { DateText(sh, d) : sh \in DateShapes, d \in {Today0 - 15, Today0 - 14, Today0, Today0 + 1} }
    \cup { DateText("none", id) : id \in {1, 2} }

DateCalls ==
    [fn : {"normalize_date", "sniff_date_from_text", "sane_date"},
     text : DateTexts,
     today : {Today0, Today0 + 1}]

(* no capture is being processed *)
NoCap == [url |-> "", files |-> {}, body |-> Doc("bad", <<>>)]

(* the record of the URL being fetched while none is *)
NoJob == [url |-> "", attempt |-> 0, ok |-> FALSE, skipped |-> FALSE,
          error |-> "", last_err |-> "", retried |-> {}]

(* l1_summary.json is not there *)
NoSummary == [exists |-> FALSE, count |-> 0, ok |-> 0, skipped |-> 0,
              interrupted |-> FALSE, fetched |-> <<>>]

(* the fetcher's variables while the fetcher does not run *)
FetchIdle ==
    /\ queue = <<>> /\ seen_urls = {} /\ RESULTS = <<>>
    /\ HOST_STATS = <<>> /\ index = 0 /\ fpc = "idle"
    /\ cur = NoJob /\ summary = NoSummary
    /\ depth = <<>> /\ popped = <<>>

(* the driver's variables while no driver runs *)
DriverIdle ==
    /\ driver = "none" /\ pc = "idle" /\ idx = 0
    /\ cap = NoCap
    /\ all_records = <<>> /\ dataset = <<>> /\ clock = 0 /\ snaps = <<>>
    /\ run = 1 /\ prev = <<>> /\ trace = <<>> /\ base = <<>>

RunIdle == FetchIdle /\ DriverIdle

UnitInit ==
    /\ call \in ValidateCalls \cup DedupeCalls \cup DateCalls
    /\ ret = "pending"
    /\ upc = "ready"
    /\ RunIdle

ApplyValidate ==
    /\ upc = "ready"
    /\ call.fn = "validate_numbers"
    /\ IF validate_numbers_raises(call.game, call.nums, call.bonus)
       THEN upc' = "raised" /\ ret' = ret
       ELSE /\ ret' = validate_numbers(call.game, call.nums, call.bonus)
            /\ upc' = "done"
    /\ UNCHANGED <<call, runVars, fetchVars>>

ApplyDedupe ==
    /\ upc = "ready"
    /\ call.fn = "dedupe_keep_best"
    /\ ret' = dedupe_keep_best(call.records)
    /\ upc' = "done"
    /\ UNCHANGED <<call, runVars, fetchVars>>

ApplyDate ==
    /\ upc = "ready"
    /\ call.fn \in {"normalize_date", "sniff_date_from_text", "sane_date"}
    /\ ret' = CASE call.fn = "normalize_date" -> normalize_date(call.text, call.today)
                [] call.fn = "sniff_date_from_text" -> sniff_date_from_text(call.text, call.today)
                [] call.fn = "sane_date" -> sane_date(call.text, call.today)
    /\ upc' = "done"
    /\ UNCHANGED <<call, runVars, fetchVars>>

UnitNext == ApplyValidate \/ ApplyDedupe \/ ApplyDate

SpecUnits == UnitInit /\ [][UnitNext]_vars

----------------------------------------------------------------------------
(* The numbers column of the CSV both drivers write:                      *)
(* " ".join(map(str, r["numbers"])).  A column is held as the sequence of *)
(* its whitespace-separated tokens, a token as its decimal digits and the *)
(* digits after a decimal point (none for an int).                         *)

RECURSIVE Digits(_)
Digits(n) == IF n < 10 THEN <<n>> ELSE Append(Digits(n \div 10), n % 10)

str(x) ==
    IF IsIntElem(x) THEN [digits |-> Digits(x), frac |-> <<>>]
    ELSE [digits |-> Digits(x - 1000), frac |-> <<5>>]

numbers_column(numbers) == [i \in DOMAIN numbers |-> str(numbers[i])]

----------------------------------------------------------------------------
(* The drivers.  The contents of a capture's files are inputs: each is    *)
(* drawn from the sets below when the driver reads it.                     *)

NowDay == Today0

Lanes == <<"A0", "A", "B", "C">>

D_ok == DateText("mdy", Today0 - 1)
D_edge == DateText("iso", Today0 - LAST_N_DAYS)
D_old == DateText("mdy", Today0 - LAST_N_DAYS - 1)
D_bad == DateText("none", 1)

N5 == StrV(<<1, 12, 23, 34, 45>>)
N6 == StrV(<<1, 12, 23, 34, 45, 10>>)
N6hi == ListV(<<1, 12, 23, 34, 75, 30>>)

NonDict == Item(FALSE, EmptyText, NoneV, NoneV, {})
GoodItem == Item(TRUE, D_ok, N5, IntV(10), {"powerball"})

ItemsU ==
    {GoodItem, NonDict,
     Item(TRUE, D_old, N5, IntV(10), {"powerball"}),
     Item(TRUE, D_ok, N6, NoneV, {"powerball"}),
     Item(TRUE, D_ok, N6hi, NoneV, {"powerball"}),
     Item(TRUE, EmptyText, N5, IntV(10), {"powerball"}),
     Item(TRUE, D_edge, N6, NoneV, {})}

DocsU ==
    {Doc("bad", <<>>)}
    \cup { Doc(k, <<a>>) : k \in {"asmx", "tree"}, a \in ItemsU }
    \cup { Doc("pb_list", <<a>>) : a \in ItemsU \ {NonDict} }
    \cup { Doc(k, <<GoodItem, a>>) : k \in {"pb_list", "tree"}, a \in {GoodItem, NonDict} }

NetsU ==
    {Net(FALSE, <<>>), Net(TRUE, <<>>), Net(TRUE, <<Entry(FALSE, Doc("bad", <<>>))>>)}
    \cup { Net(TRUE, <<Entry(TRUE, Doc("bad", <<>>)), Entry(TRUE, Doc(k, <<a>>))>>) :
             k \in {"pb_list", "tree"},
             a \in {GoodItem, Item(TRUE, D_old, N5, IntV(10), {"powerball"})} }
    \cup { Net(TRUE, <<Entry(TRUE, Doc("pb_list", <<GoodItem, NonDict>>))>>) }

GoodNums == <<1, 12, 23, 34, 45>>

PagesU ==
    { Page(s, w, D_ok, GoodNums, IntV(10), r) :
        s \in BOOLEAN, w \in {{}, {"powerball"}},
        r \in {<<>>, <<Rule("Powerball", FALSE)>>, <<Rule("Powerball", TRUE)>>} }
    \cup { Page(FALSE, {"powerball"}, D_old, GoodNums, IntV(10), <<>>),
           Page(FALSE, {"powerball"}, D_ok, <<>>, IntV(10), <<>>),
           Page(FALSE, {"powerball"}, D_ok, GoodNums, NoneV, <<>>) }

VRecsU ==
    { VRec(TRUE, D_ok, "Powerball", n, b, "", "", 0) :
        n \in {ListV(<<1, 12, 23, 34, 45, 10>>), ListV(GoodNums),
               ListV(<<1, 12, 23, 34, 45, 10, 11>>),
               ListV(<<1, 12, 23, 34, 45, 10, Float(1)>>), NoneV},
        b \in {NoneV, IntV(10)} }
    \cup { VRec(TRUE, D_old, "Powerball", ListV(GoodNums), IntV(10), "", "", 0),
           VRec(TRUE, D_ok, "Powerball", ListV(GoodNums), IntV(10), "json", "", 0),
           VRec(TRUE, D_ok, NoGame, ListV(GoodNums), IntV(10), "", "", 0) }

VisionU ==
    {Doc("bad", <<>>), Doc("other", <<>>)}
    \cup { Doc("list", <<r>>) : r \in VRecsU }
    \cup { Doc("list", <<r, VRec(FALSE, EmptyText, NoGame, NoneV, NoneV, "", "", 0)>>) :
             r \in {VRec(TRUE, D_ok, "Powerball", ListV(GoodNums), IntV(10), "", "", 0)} }

UrlsU == {"https://www.powerball.com/draws", "https://www.megamillions.com/numbers",
          "https://example.org/results"}

TextItemsU ==
    { Item(TRUE, d, N6, NoneV, {"powerball"}) :
        d \in {D_ok, D_old, DateText("month", Today0 - 1), D_bad, EmptyText} }
    \cup {Item(TRUE, D_ok, N6, NoneV, {})}

BodiesU == DocsU \cup { Doc("text", <<a>>) : a \in TextItemsU }

Universe(lane) ==
    CASE lane = "A0" -> DocsU
      [] lane = "A" -> NetsU
      [] lane = "B" -> PagesU
      [] lane = "C" -> VisionU

(* A capture of a fixed directory: [meta, url, files, A0, A, B, C, body]. *)
FixedCap(meta, url, files, a0, a, b, c, body) ==
    [meta |-> meta, url |-> url, files |-> files,
     A0 |-> a0, A |-> a, B |-> b, C |-> c, body |-> body]

NumCaps == IF snaps = <<>> THEN NumCaptures ELSE Len(snaps)

(* the contents the file of a lane can have when the driver reads it *)
Content(lane) ==
    IF snaps = <<>> THEN Universe(lane)
    ELSE CASE lane = "A0" -> {snaps[idx].A0}
           [] lane = "A" -> {snaps[idx].A}
           [] lane = "B" -> {snaps[idx].B}
           [] lane = "C" -> {snaps[idx].C}

(* the captures the loop can take next: [meta, url, files, body] *)
NextCaps ==
    IF snaps = <<>>
    THEN IF driver = "extract_from_snaps"
         THEN [meta : {"ok", "bad", "nondict"},
               url : UrlsU \ {"https://www.megamillions.com/numbers"},
               files : SUBSET {"A0", "A", "B", "C"}, body : {Doc("bad", <<>>)}]
         ELSE [meta : {"ok", "bad"}, url : UrlsU, files : {{}}, body : BodiesU]
    ELSE { [meta |-> snaps[idx + 1].meta, url |-> snaps[idx + 1].url,
            files |-> snaps[idx + 1].files, body |-> snaps[idx + 1].body] }

RunInit(d) ==
    /\ driver = d
    /\ pc = "next" /\ idx = 0
    /\ cap = NoCap
    /\ all_records = <<>> /\ dataset = <<>> /\ clock = 0
    /\ run = 1 /\ prev = <<>> /\ trace = <<>> /\ base = <<>>
    /\ call = [fn |-> "none"] /\ ret = "pending" /\ upc = "idle"
    /\ FetchIdle

Init ==
    /\ \E d \in {"extract_from_snaps", "parse_and_classify"} : RunInit(d)
    /\ snaps = <<>>

(* extract_from_snaps.main: the top of the loop over *.meta.json.  A meta *)
(* file that json.load cannot read skips the capture; one that holds JSON *)
(* other than an object makes meta.get raise outside every try.           *)
TakeSnap ==
    /\ driver = "extract_from_snaps" /\ pc = "next" /\ idx < NumCaps
    /\ \E c \in NextCaps :
         /\ cap' = IF c.meta = "ok"
                    THEN [url |-> c.url, files |-> c.files, body |-> c.body]
                    ELSE NoCap
         /\ pc' = CASE c.meta = "ok" -> "A0"
                    [] c.meta = "bad" -> "next"
                    [] OTHER -> "crashed"
    /\ idx' = idx + 1
    /\ trace' = <<>>
    /\ base' = all_records
    /\ UNCHANGED <<driver, all_records, dataset, clock, snaps, run, prev, unitVars, fetchVars>>

(* a lane whose result never ends the capture: every lane present runs *)
Lane_merge(lane, after) ==
    /\ driver = "extract_from_snaps" /\ pc = lane
    /\ IF lane \notin cap.files
       THEN /\ pc' = after
            /\ UNCHANGED <<all_records, trace>>
       ELSE \E content \in Content(lane) :
              LET r == run_lane(lane, content, cap.url, NowDay, clock)
              IN  /\ trace' = Append(trace, [lane |-> lane, raised |-> r.raised, recs |-> r.recs])
                  /\ all_records' = all_records \o r.recs
                  /\ pc' = after
    /\ UNCHANGED <<driver, idx, cap, dataset, clock, snaps, run, prev, base, unitVars, fetchVars>>

(* a lane whose exception ends the capture *)
Lane_abort(lane, after) ==
    /\ driver = "extract_from_snaps" /\ pc = lane
    /\ IF lane \notin cap.files
       THEN /\ pc' = after
            /\ UNCHANGED <<all_records, trace>>
       ELSE \E content \in Content(lane) :
              LET r == run_lane(lane, content, cap.url, NowDay, clock)
              IN  /\ trace' = Append(trace, [lane |-> lane, raised |-> r.raised, recs |-> r.recs])
                  /\ IF r.recs # <<>>
                     THEN all_records' = all_records \o r.recs /\ pc' = "next"
                     ELSE all_records' = all_records
                          /\ pc' = IF r.raised THEN "next" ELSE after
    /\ UNCHANGED <<driver, idx, cap, dataset, clock, snaps, run, prev, base, unitVars, fetchVars>>

(* One lane of extract_from_snaps.main: skipped when its file does not    *)
(* exist; an exception of the lane is swallowed (except Exception: pass); *)
(* a non-empty result extends records and continues with the next capture.*)
Lane(lane, after) ==
    /\ driver = "extract_from_snaps" /\ pc = lane
    /\ IF lane \notin cap.files
       THEN /\ pc' = after
            /\ UNCHANGED <<all_records, trace>>
       ELSE \E content \in Content(lane) :
              LET r == run_lane(lane, content, cap.url, NowDay, clock)
              IN  /\ trace' = Append(trace, [lane |-> lane, raised |-> r.raised, recs |-> r.recs])
                  /\ IF r.recs # <<>>
                     THEN all_records' = all_records \o r.recs /\ pc' = "next"
                     ELSE all_records' = all_records /\ pc' = after
    /\ UNCHANGED <<driver, idx, cap, dataset, clock, snaps, run, prev, base, unitVars, fetchVars>>

LaneA0 == Lane("A0", "A")
LaneA == Lane("A", "B")
LaneB == Lane("B", "C")
LaneC == Lane("C", "next")

(* parse_and_classify.main: the top of the loop over source_*.*; a file   *)
(* with another suffix is skipped (meta "bad" stands for it).             *)
TakeSource ==
    /\ driver = "parse_and_classify" /\ pc = "next" /\ idx < NumCaps
    /\ \E c \in NextCaps :
         /\ cap' = IF c.meta = "ok"
                    THEN [url |-> c.url, files |-> {}, body |-> c.body]
                    ELSE NoCap
         /\ pc' = IF c.meta = "ok" THEN "P" ELSE "next"
    /\ idx' = idx + 1
    /\ trace' = <<>>
    /\ base' = all_records
    /\ UNCHANGED <<driver, all_records, dataset, clock, snaps, run, prev, unitVars, fetchVars>>

(* recs = parser(body, meta): nothing catches what the parser raises *)
Parser ==
    /\ driver = "parse_and_classify" /\ pc = "P"
    /\ LET r == route(cap.body, cap.url, NowDay)
       IN  /\ trace' = Append(trace, [lane |-> "P", raised |-> r.raised, recs |-> r.recs])
           /\ IF r.raised THEN pc' = "crashed" /\ all_records' = all_records
              ELSE IF r.recs = <<>> /\ has_json(cap.body)
                   THEN pc' = "G" /\ all_records' = all_records
                   ELSE pc' = "next" /\ all_records' = all_records \o r.recs
    /\ cap' = IF pc' = "G" THEN cap ELSE NoCap
    /\ UNCHANGED <<driver, idx, dataset, clock, snaps, run, prev, base, unitVars, fetchVars>>

(* the safety net: the generic walker when the parser returned nothing *)
Generic ==
    /\ driver = "parse_and_classify" /\ pc = "G"
    /\ LET recs == parse_json_generic(cap.body, cap.url, NowDay)
       IN  /\ trace' = Append(trace, [lane |-> "G", raised |-> FALSE, recs |-> recs])
           /\ all_records' = all_records \o recs
    /\ pc' = "next"
    /\ cap' = NoCap
    /\ UNCHANGED <<driver, idx, dataset, clock, snaps, run, prev, base, unitVars, fetchVars>>

(* a driver that writes its dataset before the loop has taken every capture *)
Finish_early ==
    /\ pc = "next"
    /\ dataset' = IF driver = "extract_from_snaps" THEN dedupe_keep_best(all_records)
                  ELSE sort_newest_first(unique_from(all_records, 1, <<>>))
    /\ pc' = "done"
    /\ UNCHANGED <<driver, idx, cap, all_records, clock, snaps, run, prev, trace, base, unitVars, fetchVars>>

(* after the loop: de-duplicate, (sort,) write the dataset *)
Finish ==
    /\ pc = "next" /\ idx = NumCaps
    /\ dataset' = IF driver = "extract_from_snaps" THEN dedupe_keep_best(all_records)
              ELSE sort_newest_first(unique_from(all_records, 1, <<>>))
    /\ pc' = "done"
    /\ UNCHANGED <<driver, idx, cap, all_records, clock, snaps, run, prev, trace, base, unitVars, fetchVars>>

Next == TakeSnap \/ LaneA0 \/ LaneA \/ LaneB \/ LaneC \/ TakeSource \/ Parser \/ Generic \/ Finish

Spec == Init /\ [][Next]_vars

----------------------------------------------------------------------------
(* Two runs of a driver on one directory of captures: the files are fixed *)
(* before the first run and read again, unchanged, by the second.          *)

GoodPage == Page(FALSE, {"powerball"}, D_ok, GoodNums, IntV(10), <<>>)
GoodVision == Doc("list", <<VRec(TRUE, D_ok, "Powerball", ListV(GoodNums), IntV(10), "", "", 0)>>)
NoDoc == Doc("bad", <<>>)

FixedCapsU ==
    { FixedCap("ok", "https://www.powerball.com/draws", {"A0"},
               Doc("pb_list", <<GoodItem>>), Net(FALSE, <<>>), GoodPage, NoDoc,
               Doc("pb_list", <<GoodItem>>)),
      FixedCap("ok", "https://example.org/results", {"A", "B", "C"},
               NoDoc, Net(FALSE, <<>>), GoodPage, GoodVision,
               Doc("tree", <<GoodItem>>)),
      FixedCap("ok", "https://www.powerball.com/draws", {"B", "C"},
               NoDoc, Net(FALSE, <<>>),
               Page(TRUE, {"powerball"}, D_ok, GoodNums, IntV(10), <<>>), GoodVision,
               Doc("text", <<Item(TRUE, EmptyText, N6, NoneV, {"powerball"})>>)),
      FixedCap("ok", "https://www.powerball.com/draws", {"A0", "A", "B", "C"},
               NoDoc, Net(TRUE, <<Entry(TRUE, Doc("tree", <<GoodItem>>))>>), GoodPage, NoDoc,
               Doc("tree", <<Item(TRUE, D_old, N5, IntV(10), {"powerball"})>>)),
      FixedCap("bad", "https://example.org/results", {"B"},
               NoDoc, Net(FALSE, <<>>), GoodPage, NoDoc, NoDoc) }

InitRerun ==
    /\ \E d \in {"extract_from_snaps", "parse_and_classify"} : RunInit(d)
    /\ snaps \in { q \in SeqsUpTo(FixedCapsU, MaxSnaps) : q # <<>> }

(* the driver is started again, later, on the same directory *)
Restart ==
    /\ snaps # <<>> /\ run = 1 /\ pc = "done"
    /\ prev' = dataset
    /\ run' = 2
    /\ clock' = clock + 1
    /\ pc' = "next" /\ idx' = 0 /\ cap' = NoCap
    /\ all_records' = <<>> /\ dataset' = <<>> /\ trace' = <<>> /\ base' = <<>>
    /\ UNCHANGED <<driver, snaps, unitVars, fetchVars>>

NextRerun == Next \/ Restart

SpecRerun == InitRerun /\ [][NextRerun]_vars

----------------------------------------------------------------------------
(* The lanes and parsers called on their own: one call, drawn at the      *)
(* start, and its result.                                                  *)

RuleListsL ==
    SeqsUpTo({Rule("Powerball", FALSE), Rule("Powerball", TRUE), Rule(NoGame, FALSE)}, 2)

PagesL ==
    { Page(s, w, d, n, b, r) :
        s \in BOOLEAN, w \in {{}, {"powerball"}}, d \in {D_ok, D_old},
        n \in {<<>>, GoodNums}, b \in {NoneV, IntV(10)}, r \in RuleListsL }

HtmlCalls ==
    [fn : {"extract_from_html", "apply_adapter_html"}, html : PagesL,
     url : {"https://www.powerball.com/draws", "https://example.org/results"}]

DocsL ==
    DocsU \cup { Doc("tree", <<Item(TRUE, EmptyText, n, b, {"powerball"})>>) :
                    n \in {N5, N6}, b \in {NoneV, IntV(10)} }

(* single Powerball objects *)
PbObjDocs ==
    { Doc("pb_obj", <<Item(TRUE, d, n, b, {"powerball"})>>) :
        d \in {D_ok, D_edge, D_old, DateText("month", Today0 - 1)},
        n \in {N5, StrV(<<1, 12, 23, 34, 72>>)},
        b \in {StrV(<<10>>), StrV(<<31>>)} }

(* payloads with as many matching object nodes as the cap, and one more *)
BigDocs ==
    { Doc("tree", [i \in 1..n |-> Item(TRUE, D_ok, N6, IntV(10), {"powerball"})]) :
        n \in {JSON_MAX_RECORDS, JSON_MAX_RECORDS + 1} }

GenericCalls ==
    [fn : {"parse_json_generic", "extract_from_network_json"},
     body : DocsL \cup BigDocs \cup PbObjDocs,
     url : {"https://www.powerball.com/draws", "https://example.org/results"}]

GoodVRec == VRec(TRUE, D_ok, "Powerball", ListV(GoodNums), IntV(10), "", "", 0)

VisionL ==
    VisionU \cup { Doc("list", <<GoodVRec, VRec(TRUE, D_ok, g, n, IntV(10), "", "", 0)>>) :
                     g \in {"Powerball", "Bingo", GameObj},
                     n \in {ListV(GoodNums), StrV(GoodNums), NoneV} }

(* validate_numbers on malformed arguments *)
MalformedCalls ==
    [fn : {"validate_numbers"},
     game : {"Powerball", "Bingo", NoGame, GameObj},
     nums : {NoneV, IntV(7), StrV(GoodNums), ListV(GoodNums), ListV(<<1, 12, 23, 34, Float(45)>>),
             ListV(<<1, 12>>)},
     bonus : {NoneV, IntV(10), StrV(<<10>>), ListV(<<10>>)}]

VisionCalls ==
    [fn : {"extract_with_vision"}, out : VisionL,
     url : {"https://www.powerball.com/draws", "https://example.org/results"}]

T6 == StrV(<<2, 13, 24, 35, 46, 11>>)

MarkupU ==
    { Doc("markup", <<Item(TRUE, d, n, NoneV, w), a>>) :
        d \in {D_ok, D_old}, n \in {T6, NoneV}, w \in {{}, {"powerball"}}, a \in ItemsU }

RouteCalls ==
    [fn : {"route"}, body : BodiesU \cup MarkupU \cup PbObjDocs,
     url : UrlsU \cup {"https://example.org/powerball"}]

(* bodies of *.body.json files: items whose numbers hold a sixth token *)
(* low enough for every game                                           *)
IngestDocs ==
    DocsU \cup PbObjDocs
    \cup { Doc(k, <<Item(TRUE, D_ok, StrV(<<1, 12, 23, 34, 45, 3>>), b, {})>>) :
             k \in {"pb_list", "asmx", "tree"}, b \in {NoneV, IntV(3)} }

IngestCalls ==
    [fn : {"ingest"}, body : IngestDocs,
     url : {"https://www.powerball.com/draws", "https://www.megamillions.com/numbers"}]

LaneCalls ==
    HtmlCalls \cup GenericCalls \cup VisionCalls \cup RouteCalls \cup MalformedCalls
    \cup IngestCalls

LaneInit ==
    /\ call \in LaneCalls
    /\ ret = "pending"
    /\ upc = "ready"
    /\ RunIdle

ApplyHtml ==
    /\ upc = "ready"
    /\ call.fn = "extract_from_html"
    /\ ret' = extract_from_html(call.html, call.url, NowDay, 0)
    /\ upc' = "done"
    /\ UNCHANGED <<call, runVars, fetchVars>>

ApplyAdapter ==
    /\ upc = "ready"
    /\ call.fn = "apply_adapter_html"
    /\ ret' = apply_adapter_html(call.html, call.url, NowDay, 0)
    /\ upc' = "done"
    /\ UNCHANGED <<call, runVars, fetchVars>>

ApplyGeneric ==
    /\ upc = "ready"
    /\ call.fn = "parse_json_generic"
    /\ ret' = Result(FALSE, parse_json_generic(call.body, call.url, NowDay))
    /\ upc' = "done"
    /\ UNCHANGED <<call, runVars, fetchVars>>

ApplyNetJson ==
    /\ upc = "ready"
    /\ call.fn = "extract_from_network_json"
    /\ ret' = extract_from_network_json(call.body, call.url, NowDay, 0)
    /\ upc' = "done"
    /\ UNCHANGED <<call, runVars, fetchVars>>

ApplyVision ==
    /\ upc = "ready"
    /\ call.fn = "extract_with_vision"
    /\ ret' = extract_with_vision(call.out, call.url, NowDay)
    /\ upc' = "done"
    /\ UNCHANGED <<call, runVars, fetchVars>>

(* parser = PARSERS.get(host, parse_unknown); recs = parser(body, meta) *)
ApplyRoute ==
    /\ upc = "ready"
    /\ call.fn = "route"
    /\ ret' = route(call.body, call.url, NowDay)
    /\ upc' = "done"
    /\ UNCHANGED <<call, runVars, fetchVars>>

(* ingest_bodies_only.main for one body file *)
ApplyIngest ==
    /\ upc = "ready"
    /\ call.fn = "ingest"
    /\ ret' = ingest_file(call.body, call.url, NowDay, 0)
    /\ upc' = "done"
    /\ UNCHANGED <<call, runVars, fetchVars>>

LaneNext ==
    \/ ApplyHtml \/ ApplyAdapter \/ ApplyGeneric \/ ApplyNetJson \/ ApplyVision
    \/ ApplyRoute \/ ApplyValidate \/ ApplyIngest

SpecLanes == LaneInit /\ [][LaneNext]_vars

----------------------------------------------------------------------------
(* C1: for a game of the rule table, a list n of integers and an integer  *)
(* bonus b, validate_numbers returns True exactly when len(n) is the      *)
(* game's main count, every element lies in the main range and b lies in  *)
(* the bonus range.                                                       *)
C1_ValidateIff ==
    (upc = "done" /\ call.fn = "validate_numbers") =>
        LET rule == GAME_RULES[call.game]
            n == call.nums.v
            b == call.bonus.v[1]
        IN  ret = (/\ Len(n) = rule.main[1]
                   /\ \A i \in DOMAIN n : rule.main[2] <= n[i] /\ n[i] <= rule.main[3]
                   /\ rule.bonus[2] <= b /\ b <= rule.bonus[3])

C1_Witness ==
    /\ upc = "done" /\ call.fn = "validate_numbers"
    /\ ret = TRUE
    /\ call.game = "Lucky for Life"
    /\ 48 \in Range(call.nums.v)

----------------------------------------------------------------------------
(* C2: the record dedupe_keep_best keeps for a key has a rank at least as *)
(* high as every input record with that key, and every input key is kept; *)
(* of an html and a json record with one key only the json one remains.   *)
C2_KeepsBestRank ==
    (upc = "done" /\ call.fn = "dedupe_keep_best") =>
        \A i \in DOMAIN call.records :
            /\ \E j \in DOMAIN ret : KeyOf(ret[j]) = KeyOf(call.records[i])
            /\ \A j \in DOMAIN ret :
                 KeyOf(ret[j]) = KeyOf(call.records[i]) =>
                    /\ rank(ret[j].extraction_method) >= rank(call.records[i].extraction_method)
                    /\ (call.records[i].extraction_method = "json"
                           => ret[j].extraction_method = "json")

C2_Witness ==
    /\ upc = "done" /\ call.fn = "dedupe_keep_best"
    /\ Len(call.records) = 2
    /\ call.records[1].extraction_method = "html"
    /\ call.records[2].extraction_method = "json"
    /\ KeyOf(call.records[1]) = KeyOf(call.records[2])
    /\ ret = <<call.records[2]>>

(* C7: the date normalizer returns an invalid result for a text that is   *)
(* empty or matches no supported shape; it never returns the first 10     *)
(* characters of the text, or any value not parsed from a date shape.     *)
C7_NormalizeFailsClosed ==
    (/\ upc = "done"
     /\ call.fn \in {"normalize_date", "sniff_date_from_text"}
     /\ call.text.shape \notin DateShapes)
        => ret = NoDate

----------------------------------------------------------------------------
(* C3: after the deduplication step of either driver, the written dataset *)
(* holds no two records with the same (game, date, numbers) key.          *)
C3_NoDuplicateKeys ==
    pc = "done" =>
        \A i, j \in DOMAIN dataset :
            i # j => KeyOf(dataset[i]) # KeyOf(dataset[j])

(* records with a common key were collected, and the dataset is written *)
C3_Witness ==
    /\ pc = "done"
    /\ \E i, j \in DOMAIN all_records :
         i # j /\ KeyOf(all_records[i]) = KeyOf(all_records[j])

(* a date inside the recency window: an ISO date LAST_N_DAYS days old at  *)
(* most and not later than now                                             *)
InWindow(date) ==
    /\ date.kind = "iso"
    /\ NowDay - LAST_N_DAYS <= date.day
    /\ date.day <= NowDay

(* C4: no record dated 15 days or more in the past, or later than now,    *)
(* is in the dataset a driver writes, whichever lane or parser made it.   *)
C4_RecencyWindow ==
    pc = "done" => \A i \in DOMAIN dataset : InWindow(dataset[i].date)

(* the position of a lane in the order the driver tries them *)
LaneOrd(lane) ==
    CASE lane \in {"A0", "P"} -> 1
      [] lane \in {"A", "G"} -> 2
      [] lane = "B" -> 3
      [] lane = "C" -> 4

(* C5: for each capture the lanes run in a fixed order; only the last     *)
(* lane run has returned records, the capture contributes exactly that    *)
(* lane's records, and no lane runs after a lane that returned a record.  *)
C5_FirstLaneWins ==
    /\ \A i, j \in DOMAIN trace :
         i < j => /\ LaneOrd(trace[i].lane) < LaneOrd(trace[j].lane)
                  /\ trace[i].recs = <<>>
    /\ all_records = base \o (IF trace = <<>> THEN <<>> ELSE trace[Len(trace)].recs)
    /\ (trace # <<>> /\ trace[Len(trace)].recs # <<>>) => pc \in {"next", "done"}

(* a lane returned records while the file of a later lane was present *)
C5_Witness ==
    /\ driver = "extract_from_snaps" /\ pc = "next" /\ trace # <<>>
    /\ trace[Len(trace)].recs # <<>>
    /\ \E l \in cap.files : LaneOrd(l) > LaneOrd(trace[Len(trace)].lane)

(* what a written record must be: a game of the rule table with its main *)
(* numbers and its bonus ball, each within the game's ranges; the bonus   *)
(* is the record's bonus field or the number after the main ones          *)
RecordValid(r) ==
    /\ r.game \in GameNames
    /\ \/ validate_numbers(r.game, ListV(r.numbers), r.bonus)
       \/ /\ Len(r.numbers) = GAME_RULES[r.game].main[1] + 1
          /\ validate_numbers(r.game, ListV(Take(r.numbers, Len(r.numbers) - 1)),
                              IntV(r.numbers[Len(r.numbers)]))

(* C6: every record of the written dataset names a game of the rule      *)
(* table, has that game's count of in-range main numbers and an in-range  *)
(* bonus ball.                                                             *)
C6_RecordsValid ==
    pc = "done" => \A i \in DOMAIN dataset : RecordValid(dataset[i])

(* C8: processing a batch never ends in an uncaught error. *)
C8_BatchCompletes == pc # "crashed"

(* the lanes of a capture that come after the given lane *)
LaterLanes(lane) == { l \in cap.files : LaneOrd(l) > LaneOrd(lane) }

(* C9: in extract_from_snaps.main a lane that raised has produced no      *)
(* record, and the next lane whose file exists is the next one tried: the  *)
(* driver is at or before it, or has run it.                               *)
C9_LaneExceptionIsZero ==
    driver = "extract_from_snaps" =>
        \A i \in DOMAIN trace :
            trace[i].raised =>
                /\ trace[i].recs = <<>>
                /\ pc # "crashed"
                /\ IF i < Len(trace)
                   THEN \A l \in LaterLanes(trace[i].lane) :
                            LaneOrd(trace[i + 1].lane) <= LaneOrd(l)
                   ELSE /\ all_records = base
                        /\ \/ pc \in {"A", "B", "C"}
                              /\ LaneOrd(pc) > LaneOrd(trace[i].lane)
                              /\ \A l \in LaterLanes(trace[i].lane) : LaneOrd(pc) <= LaneOrd(l)
                           \/ pc \in {"next", "done"} /\ LaterLanes(trace[i].lane) = {}

(* a lane raised and a later lane of the same capture has run *)
C9_Witness ==
    /\ driver = "extract_from_snaps"
    /\ \E i \in DOMAIN trace : trace[i].raised /\ i < Len(trace)

(* C10: a second run of a driver on the same captures writes the same    *)
(* dataset as the first: the same records, field by field, in the same    *)
(* order.                                                                  *)
C10_SameOutput == (run = 2 /\ pc = "done") => dataset = prev

(* reading a numbers column back: int() of each token, ValueError for a  *)
(* token that is no integer literal                                        *)
RECURSIVE int_of(_)
int_of(digits) ==
    IF digits = <<>> THEN 0
    ELSE 10 * int_of(SubSeq(digits, 1, Len(digits) - 1)) + digits[Len(digits)]

reread_numbers(column) ==
    IF \E i \in DOMAIN column : column[i].frac # <<>>
    THEN [raised |-> TRUE, v |-> <<>>]
    ELSE [raised |-> FALSE, v |-> [i \in DOMAIN column |-> int_of(column[i].digits)]]

(* C11: for every record written to the CSV, splitting its numbers column *)
(* on whitespace and parsing integers gives back the record's numbers     *)
(* list, the same values in the same order.                               *)
C11_CsvRoundTrip ==
    pc = "done" =>
        \A i \in DOMAIN dataset :
            reread_numbers(numbers_column(dataset[i].numbers))
                = [raised |-> FALSE, v |-> dataset[i].numbers]

(* the first record of the input that has the key of records[i] and the  *)
(* highest rank of its group                                               *)
FirstBest(records, i) ==
    LET group == { k \in DOMAIN records : KeyOf(records[k]) = KeyOf(records[i]) }
        top == { k \in group : \A l \in group :
                    rank(records[k].extraction_method) >= rank(records[l].extraction_method) }
    IN  records[CHOOSE k \in top : \A l \in top : k <= l]

(* C12: of the input records that share one key dedupe_keep_best keeps    *)
(* exactly one, and among those of the highest rank the one that occurs   *)
(* first in the input.                                                     *)
C12_OnePerKeyFirstSeen ==
    (upc = "done" /\ call.fn = "dedupe_keep_best") =>
        \A i \in DOMAIN call.records :
            /\ Cardinality({ j \in DOMAIN ret : KeyOf(ret[j]) = KeyOf(call.records[i]) }) = 1
            /\ \E j \in DOMAIN ret : ret[j] = FirstBest(call.records, i)

(* two records of one key tie on the highest rank and differ otherwise *)
C12_Witness ==
    /\ upc = "done" /\ call.fn = "dedupe_keep_best"
    /\ Len(call.records) = 3
    /\ KeyOf(call.records[1]) = KeyOf(call.records[2])
    /\ KeyOf(call.records[2]) = KeyOf(call.records[3])
    /\ call.records[1].extraction_method = "vision"
    /\ call.records[2].extraction_method = "html"
    /\ call.records[3].extraction_method = "html"
    /\ call.records[2] # call.records[3]
    /\ ret = <<call.records[2]>>

(* C13: for a page whose text holds a soft-404 marker the HTML lane       *)
(* returns no record, for every host and whatever else is in the page.    *)
C13_Soft404NoRecords ==
    (upc = "done" /\ call.fn = "extract_from_html" /\ call.html.soft404) =>
        ret.recs = <<>>

(* the page with the rules that cannot be compiled taken out of its list *)
WithoutBad(html) ==
    [html EXCEPT !.rules = SelectSeq(html.rules, LAMBDA r : ~r.bad)]

(* C14: an adapter rule that cannot be applied is skipped alone: the      *)
(* result is the one the other rules of the host give.                    *)
C14_BadRuleSkipped ==
    (upc = "done" /\ call.fn = "apply_adapter_html") =>
        ret = apply_adapter_html(WithoutBad(call.html), call.url, NowDay, 0)

(* C15: generic JSON-tree mining emits a record for a node only if a     *)
(* date-like field and a numbers-like field were found on it: a tree      *)
(* whose nodes carry no date yields no record.                            *)
C15_GenericNeedsDate ==
    (/\ upc = "done"
     /\ call.fn \in {"parse_json_generic", "extract_from_network_json"}
     /\ call.body.kind = "tree"
     /\ \A i \in DOMAIN call.body.items : call.body.items[i].date.shape = "empty")
        => ret.recs = <<>>

(* C16: the written dataset is ordered by date descending and, among     *)
(* records of one date, by game name ascending.                           *)
C16_SortedDateDescGameAsc ==
    pc = "done" =>
        \A i, j \in DOMAIN dataset :
            i < j =>
                /\ DateOrd(dataset[i].date) >= DateOrd(dataset[j].date)
                /\ DateOrd(dataset[i].date) = DateOrd(dataset[j].date)
                       => GameOrd(dataset[i].game) <= GameOrd(dataset[j].game)

(* nothing is written before the end, and what is written holds the key  *)
(* of every record of every capture                                        *)
SawAllCaptures ==
    /\ pc # "done" => dataset = <<>>
    /\ pc = "done" =>
          /\ idx = NumCaps
          /\ \A i \in DOMAIN all_records :
                \E j \in DOMAIN dataset : KeyOf(dataset[j]) = KeyOf(all_records[i])

(* C17: deduplication runs once per run and only after every capture has  *)
(* produced its records; no record is written before deduplication has    *)
(* seen the records of all captures.                                       *)
C17_DedupOnceAfterAll ==
    /\ []SawAllCaptures
    /\ [][/\ dataset' # dataset => (pc = "next" /\ idx = NumCaps /\ pc' = "done")
          /\ pc = "done" => pc' = "done" /\ dataset' = dataset]_vars

(* the dataset is written from the records of two captures that share a key *)
C17_Witness ==
    /\ pc = "done" /\ idx = NumCaps
    /\ base # <<>> /\ Len(all_records) > Len(base)
    /\ \E i \in DOMAIN base :
          \E j \in (Len(base) + 1)..Len(all_records) :
              KeyOf(all_records[i]) = KeyOf(all_records[j])

(* C18: every record the vision lane returns has a date inside the       *)
(* window and valid numbers, and is tagged extraction_method = vision      *)
(* whatever tag the collaborator put on it.                                *)
C18_VisionTagged ==
    (upc = "done" /\ call.fn = "extract_with_vision") =>
        \A i \in DOMAIN ret.recs :
            /\ ret.recs[i].extraction_method = "vision"
            /\ InWindow(ret.recs[i].date)
            /\ RecordValid(ret.recs[i])

(* C19: a capture whose host is not in the routing table gets the result  *)
(* of the default chain, the first of generic JSON mining, embedded-JSON  *)
(* recovery and the rendered-text scan that yields records, in that       *)
(* order; a host in the table gets its own parser's result; the choice is *)
(* made from the host alone, whatever the path or the body says.          *)
C19_DefaultChain ==
    (upc = "done" /\ call.fn = "route") =>
        LET b == call.body
            u == call.url
            mined == IF looks_like_json(b) THEN parse_json_generic(b, u, NowDay) ELSE <<>>
            embedded == IF HasBlob(b) THEN parse_json_generic(b, u, NowDay) ELSE <<>>
            scanned == unknown_text(b, u, NowDay)
        IN  CASE Host(u) = "www.powerball.com" -> ret = parse_powerball(b, u, NowDay)
              [] Host(u) = "www.megamillions.com" ->
                    ret = parse_megamillions_asmx(b, u, NowDay)
              [] OTHER ->
                    /\ ~ret.raised
                    /\ ret.recs = IF mined # <<>> THEN mined
                                  ELSE IF embedded # <<>> THEN embedded
                                  ELSE scanned

(* an unknown host with the game's name in its path, a page whose embedded *)
(* JSON and whose rendered text would both give a record: the JSON's wins  *)
C19_Witness ==
    /\ upc = "done" /\ call.fn = "route"
    /\ call.url = "https://example.org/powerball"
    /\ HasBlob(call.body)
    /\ unknown_text(call.body, call.url, NowDay) # <<>>
    /\ parse_json_generic(call.body, call.url, NowDay) # <<>>
    /\ ret.recs = parse_json_generic(call.body, call.url, NowDay)
    /\ ret.recs # unknown_text(call.body, call.url, NowDay)

(* C20: validate_numbers raises for no argument, malformed or not: for a  *)
(* numbers value that is missing or no list, elements that are no         *)
(* integers, a missing bonus or a game of any type, the call returns      *)
(* False.                                                                 *)
C20_ValidateNeverRaises ==
    (call.fn = "validate_numbers" /\ upc # "ready") =>
        /\ upc = "done"
        /\ (\/ call.game \notin GameNames
            \/ call.nums.t # "list"
            \/ \E i \in DOMAIN call.nums.v : ~IsIntElem(call.nums.v[i])
            \/ call.bonus.t = "none") => ret = FALSE

(* C21: generic JSON-tree mining returns at most JSON_MAX_RECORDS records *)
(* for one capture, however many matching object nodes the payload holds. *)
C21_GenericCapped ==
    (upc = "done" /\ call.fn \in {"parse_json_generic", "extract_from_network_json"}) =>
        Len(ret.recs) <= JSON_MAX_RECORDS

(* the cap of parse_json_generic alone *)
C21_ClassifyCapped ==
    (upc = "done" /\ call.fn = "parse_json_generic") => Len(ret.recs) <= JSON_MAX_RECORDS

C21_ClassifyCapReached ==
    /\ upc = "done" /\ call.fn = "parse_json_generic"
    /\ Len(call.body.items) > JSON_MAX_RECORDS
    /\ Len(ret.recs) = JSON_MAX_RECORDS

(* the calls that hand one capture's body to a pipeline's JSON path *)
JsonPathCall ==
    \/ call.fn \in {"extract_from_network_json", "ingest"}
    \/ call.fn = "route" /\ Host(call.url) # "example.org"

(* the item holds a date inside the window, five in-range main numbers as *)
(* a string and an in-range bonus of the given type for the game          *)
DrawItem(it, game, bonus_type) ==
    /\ it.isdict
    /\ it.date.shape \in DateShapes
    /\ InWindow(IsoDate(it.date.day))
    /\ it.nums.t = "str" /\ Len(it.nums.v) = 5
    /\ \A i \in 1..5 : InRange(it.nums.v[i], GAME_RULES[game].main[2], GAME_RULES[game].main[3])
    /\ it.bonus.t = bonus_type /\ Len(it.bonus.v) = 1
    /\ InRange(it.bonus.v[1], GAME_RULES[game].bonus[2], GAME_RULES[game].bonus[3])

(* exactly one record, of that game, date, main numbers and bonus *)
OneCanonical(recs, it, game) ==
    /\ Len(recs) = 1
    /\ recs[1].game = game
    /\ recs[1].date = IsoDate(it.date.day)
    /\ recs[1].numbers = it.nums.v \o it.bonus.v

(* C22: an ASMX envelope whose inner JSON is a list of one item with       *)
(* DrawDate inside the window, five in-range WinningNumbers as a string    *)
(* and an integer MegaBall yields exactly one Mega Millions record with    *)
(* that date in ISO form, those five numbers in order and that bonus.      *)
C22_AsmxOneRecord ==
    (/\ upc = "done" /\ JsonPathCall
     /\ call.fn = "route" => Host(call.url) = "www.megamillions.com"
     /\ call.body.kind = "asmx" /\ Len(call.body.items) = 1
     /\ DrawItem(call.body.items[1], "Mega Millions", "int")) =>
        /\ ~ret.raised
        /\ OneCanonical(ret.recs, call.body.items[1], "Mega Millions")

(* the same for the JSON lane of extract_from_snaps alone *)
C22_SnapsAsmx ==
    (/\ upc = "done" /\ call.fn = "extract_from_network_json"
     /\ call.body.kind = "asmx" /\ Len(call.body.items) = 1
     /\ DrawItem(call.body.items[1], "Mega Millions", "int")) =>
        OneCanonical(ret.recs, call.body.items[1], "Mega Millions")

(* C23: a Powerball capture whose body is one JSON object, not a list,    *)
(* with field_draw_date inside the window, five in-range numbers as a     *)
(* string in field_winning_numbers and an in-range bonus as a string in   *)
(* field_powerball yields exactly one Powerball record with that date in  *)
(* ISO form, those five numbers in order and that bonus.                  *)
C23_PowerballObject ==
    (/\ upc = "done" /\ JsonPathCall
     /\ call.url = "https://www.powerball.com/draws"
     /\ call.body.kind = "pb_obj"
     /\ DrawItem(call.body.items[1], "Powerball", "str")) =>
        /\ ~ret.raised
        /\ OneCanonical(ret.recs, call.body.items[1], "Powerball")

(* C30: in ingest_bodies_only the records of one payload are at most as   *)
(* many as its items, and no two of them have the same date and numbers   *)
(* and differ in game: no item is accepted by two payload parsers.        *)
C30_OneRecordPerItem ==
    (upc = "done" /\ call.fn = "ingest" /\ ~ret.raised) =>
        /\ Len(ret.recs) <= Len(call.body.items)
        /\ \A i, j \in DOMAIN ret.recs :
              (ret.recs[i].date = ret.recs[j].date /\ ret.recs[i].numbers = ret.recs[j].numbers)
                  => ret.recs[i].game = ret.recs[j].game

(* the draw a record states: its game, date, main balls and bonus, the    *)
(* bonus being the separate field when the record has one                  *)
DrawOf(r) ==
    <<r.game, r.date, IF r.bonus.t = "int" THEN r.numbers \o r.bonus.v ELSE r.numbers>>

(* C27: the deduplicated dataset of extract_from_snaps holds one record   *)
(* for a draw, whichever captures and lanes gave its records, also when   *)
(* one is a vision record of five numbers and a separate bonus field.     *)
C27_OneRecordPerDraw ==
    (driver = "extract_from_snaps" /\ pc = "done") =>
        \A i, j \in DOMAIN dataset :
            DrawOf(dataset[i]) = DrawOf(dataset[j]) => i = j

-----------------------------------------------------------------------------
(* layer1/fetch.py: the polite fetcher.  A queue of URLs seeded from the   *)
(* targets file; every URL is fetched with retries, a successful HTML page *)
(* of a host with expansion rules may add same-site links to the queue,    *)
(* and every finished URL leaves one entry in RESULTS.                     *)

(* the web the fetcher meets: two hosts, one of them with expansion rules  *)
Home == "https://site.example/"
SiteA == "https://site.example/a"
SiteB == "https://site.example/b"
SiteLogin == "https://site.example/login"
SitePrivate == "https://site.example/private/x"
Other == "https://other.example/"

(* urlparse(url).netloc *)
netloc(u) == IF u = Other THEN "other.example" ELSE "site.example"

Hosts == {"site.example", "other.example"}

(* the URLs a line of the targets file may hold *)
SeedUrls == {Home, SiteA, Other}

(* the longest targets file considered *)
MaxTargets == 2

(* DEFAULTS["max_retries"] *)
max_retries == 3

(* expand.yaml: max_new of the rules of site.example *)
MaxNew == 2

(* EXPAND.get(host): only site.example has rules *)
has_rules(h) == h = "site.example"

(* expand.yaml of site.example: deny ["/login"], allow ["/a", "/b", "/private/"] *)
allow_expand(h, link) ==
    /\ has_rules(h)
    /\ link # SiteLogin
    /\ link \in {SiteA, SiteB, SitePrivate}

(* pacing.yaml: site.example sets respect_robots, and its robots.txt       *)
(* disallows /private/                                                     *)
respect_robots(h) == h = "site.example"

allowed_by_robots(h, u) == u # SitePrivate

(* extract_links: the href values of the page a URL serves, in page order *)
extract_links(u) ==
    CASE u = Home -> <<SiteA, Other, SiteLogin, SitePrivate, SiteB, Home>>
      [] u = SiteA -> <<Home, SiteB, SiteB>>
      [] u = SiteB -> <<SiteA, Home>>
      [] u = Other -> <<Home>>
      [] OTHER -> <<>>

(* what one call of urlopen ends in: a response with a content type, an   *)
(* HTTPError with a status, a URLError, or another exception (a read that  *)
(* times out raises TimeoutError from resp.read())                         *)
Outcomes ==
    {[kind |-> "ok", ct |-> "text/html", code |-> 200],
     [kind |-> "ok", ct |-> "application/json", code |-> 200],
     [kind |-> "http", ct |-> "", code |-> 429],
     [kind |-> "http", ct |-> "", code |-> 404],
     [kind |-> "urlerror", ct |-> "", code |-> 0],
     [kind |-> "exception", ct |-> "", code |-> 0]}

(* the text of last_err *)
err_text(o) ==
    CASE o.kind = "http" -> IF o.code = 429 THEN "HTTPError 429" ELSE "HTTPError 404"
      [] o.kind = "urlerror" -> "URLError"
      [] OTHER -> "TimeoutError"

(* the statuses the HTTPError branch retries *)
retry_codes == {429, 500, 502, 503, 504, 403}

(* the three except branches: does the loop continue after this failure *)
should_retry(o, attempt) ==
    CASE o.kind = "http" -> o.code \in retry_codes /\ attempt < max_retries
      [] o.kind = "urlerror" -> attempt < max_retries
      [] OTHER -> attempt < max_retries

(* a retry loop whose counter does not advance *)
next_attempt_stuck(attempt) == attempt

(* for attempt in range(1, max_retries + 1): the value after a continue *)
next_attempt(attempt) == attempt + 1

(* the expansion loop over the links of a page: the links it appends to    *)
(* the queue, given seen_urls and the number added so far                  *)
RECURSIVE expand_from(_, _, _, _)
expand_from(links, h, seen, added) ==
    IF links = <<>> \/ added >= MaxNew THEN <<>>
    ELSE LET link == Head(links) IN
         IF netloc(link) # h \/ link \in seen \/ ~allow_expand(h, link)
         THEN expand_from(Tail(links), h, seen, added)
         ELSE <<link>> \o expand_from(Tail(links), h, seen \cup {link}, added + 1)

(* the links a successful fetch of u with content type ct queues *)
expansion(u, ct, seen) ==
    IF has_rules(netloc(u)) /\ ct = "text/html" /\ MaxNew > 0
    THEN expand_from(extract_links(u), netloc(u), seen, 0)
    ELSE <<>>

(* the entry of RESULTS made of the record of the URL being fetched *)
result_of(r, i) ==
    [index |-> i, url |-> r.url, ok |-> r.ok, skipped |-> FALSE, error |-> r.error]

(* the number of entries of a list that satisfy a test *)
CountOk(results) == Len(SelectSeq(results, LAMBDA r : r.ok))

CountSkipped(results) == Len(SelectSeq(results, LAMBDA r : r.skipped))

(* the file written after the loop *)
final_summary(results) ==
    [exists |-> TRUE, count |-> Len(results), ok |-> CountOk(results),
     skipped |-> CountSkipped(results), interrupted |-> FALSE, fetched |-> results]

(* a handler that reports the successful results only *)
write_summary_okonly(results) ==
    LET kept == SelectSeq(results, LAMBDA r : r.ok) IN
    [exists |-> TRUE, count |-> Len(kept), ok |-> Len(kept),
     skipped |-> 0, interrupted |-> TRUE, fetched |-> kept]

(* write_summary_and_exit: the file the SIGINT handler writes *)
write_summary_and_exit(results) ==
    [exists |-> TRUE, count |-> Len(results), ok |-> CountOk(results),
     skipped |-> CountSkipped(results), interrupted |-> TRUE, fetched |-> results]

(* load_targets keeps every URL line of the file, in order, repeated lines *)
(* included; seen_urls = set(queue)                                        *)
InitFetch ==
    /\ queue \in SeqsUpTo(SeedUrls, MaxTargets)
    /\ seen_urls = Range(queue)
    /\ depth = [u \in Range(queue) |-> 0]
    /\ RESULTS = <<>>
    /\ HOST_STATS = [h \in Hosts |-> [ok |-> 0, fail |-> 0]]
    /\ index = 0 /\ fpc = "loop" /\ cur = NoJob /\ summary = NoSummary
    /\ popped = <<>>
    /\ call = [fn |-> "none"] /\ ret = "pending" /\ upc = "idle"
    /\ DriverIdle

(* while queue: url = queue.pop(0); index += 1; a URL robots.txt disallows *)
(* gets a skipped entry and the loop continues; otherwise rec is built and *)
(* the retry loop starts                                                   *)
Dequeue ==
    /\ fpc = "loop" /\ queue # <<>>
    /\ LET u == Head(queue) IN
         /\ queue' = Tail(queue)
         /\ index' = index + 1
         /\ popped' = Append(popped, u)
         /\ IF respect_robots(netloc(u)) /\ ~allowed_by_robots(netloc(u), u)
            THEN /\ RESULTS' = Append(RESULTS, [index |-> index + 1, url |-> u, ok |-> FALSE,
                                                skipped |-> TRUE, error |-> ""])
                 /\ UNCHANGED <<cur, fpc>>
            ELSE /\ cur' = [NoJob EXCEPT !.url = u, !.attempt = 1]
                 /\ fpc' = IF max_retries >= 1 THEN "attempt" ELSE "after"
                 /\ UNCHANGED RESULTS
    /\ UNCHANGED <<seen_urls, HOST_STATS, summary, depth, unitVars, runVars>>

(* one pass of the retry loop: the request succeeds (the body is written,  *)
(* rec is updated, links are queued, break) or fails (continue with the    *)
(* next attempt, or set rec["error"] and break)                            *)
Attempt ==
    /\ fpc = "attempt"
    /\ \E o \in Outcomes :
         IF o.kind = "ok"
         THEN LET new == expansion(cur.url, o.ct, seen_urls) IN
              /\ cur' = [cur EXCEPT !.ok = TRUE]
              /\ queue' = queue \o new
              /\ seen_urls' = seen_urls \cup Range(new)
              /\ depth' = [u \in DOMAIN depth \cup Range(new) |->
                              IF u \in Range(new) THEN depth[cur.url] + 1 ELSE depth[u]]
              /\ fpc' = "after"
         ELSE /\ IF should_retry(o, cur.attempt)
                 THEN /\ cur' = [cur EXCEPT !.last_err = err_text(o),
                                            !.attempt = next_attempt(cur.attempt),
                                            !.retried = @ \cup {o}]
                      /\ fpc' = "attempt"
                 ELSE /\ cur' = [cur EXCEPT !.last_err = err_text(o), !.error = err_text(o)]
                      /\ fpc' = "after"
              /\ UNCHANGED <<queue, seen_urls, depth>>
    /\ UNCHANGED <<RESULTS, HOST_STATS, index, summary, popped, unitVars, runVars>>

(* below the retry loop: a record with neither ok nor error gets one, and  *)
(* RESULTS.append(rec)                                                     *)
AppendResult ==
    /\ fpc = "after"
    /\ LET r == IF ~cur.ok /\ cur.error = ""
                THEN [cur EXCEPT !.error = IF cur.last_err # "" THEN cur.last_err
                                           ELSE "fetch failed"]
                ELSE cur
       IN /\ cur' = r
          /\ RESULTS' = Append(RESULTS, result_of(r, index))
    /\ fpc' = "stats"
    /\ UNCHANGED <<queue, seen_urls, HOST_STATS, index, summary, depth, popped, unitVars, runVars>>

(* HOST_STATS of the host is updated, last_hit is set, jitter_sleep *)
HostStats ==
    /\ fpc = "stats"
    /\ HOST_STATS' = [HOST_STATS EXCEPT ![netloc(cur.url)] =
                         IF cur.ok THEN [@ EXCEPT !.ok = @ + 1]
                         ELSE [@ EXCEPT !.fail = @ + 1]]
    /\ fpc' = "loop"
    /\ UNCHANGED <<queue, seen_urls, RESULTS, index, cur, summary, depth, popped, unitVars, runVars>>

(* the queue is empty: the summary is written and the script ends *)
WriteSummary ==
    /\ fpc = "loop" /\ queue = <<>>
    /\ summary' = final_summary(RESULTS)
    /\ fpc' = "done"
    /\ UNCHANGED <<queue, seen_urls, RESULTS, HOST_STATS, index, cur, depth, popped, unitVars, runVars>>

(* SIGINT: the handler runs between any two steps of the loop, writes the  *)
(* summary from RESULTS as they are and leaves through sys.exit            *)
Sigint ==
    /\ fpc \in {"loop", "attempt", "after", "stats"}
    /\ summary' = write_summary_and_exit(RESULTS)
    /\ fpc' = "exited"
    /\ UNCHANGED <<queue, seen_urls, RESULTS, HOST_STATS, index, cur, depth, popped, unitVars, runVars>>

(* the loop when no signal arrives *)
FetchRun == Dequeue \/ Attempt \/ AppendResult \/ HostStats \/ WriteSummary

FetchNext == Dequeue \/ Attempt \/ AppendResult \/ HostStats \/ WriteSummary \/ Sigint

SpecFetch == InitFetch /\ [][FetchNext]_vars

(* the script is sequential code and every request has a timeout: a step   *)
(* that can be taken is taken                                              *)
SpecFetchLive == InitFetch /\ [][FetchRun]_vars /\ WF_vars(FetchRun)

-----------------------------------------------------------------------------
(* C24: the fetcher makes at most max_retries attempts per URL, stops at   *)
(* the first successful attempt, and a failed attempt is followed by       *)
(* another one only when the failure was HTTP 429, a 5xx status, HTTP 403  *)
(* or a URLError.                                                          *)
C24_RetryOnlyListed ==
    fpc \in {"loop", "attempt", "after", "stats", "done", "exited"} =>
        /\ cur.attempt <= max_retries
        /\ (cur.ok => fpc # "attempt")
        /\ \A o \in cur.retried :
             \/ o.kind = "urlerror"
             \/ o.kind = "http" /\ (o.code \in {429, 403} \/ o.code \in 500..599)

(* C25: link expansion is depth-1: every URL in the queue is a line of the *)
(* targets file or a link of a page that was a line of the targets file.   *)
C25_DepthOne ==
    fpc # "idle" => \A u \in DOMAIN depth : depth[u] <= 1

(* C26: after SIGINT, l1_summary.json exists, is marked interrupted and    *)
(* holds RESULTS as they were: its count, ok and skipped totals are those  *)
(* of its list, and its list has, in order, an entry for every URL taken   *)
(* from the queue, except at most the one that was being fetched.          *)
C26_InterruptedSummary ==
    fpc = "exited" =>
        /\ summary.exists /\ summary.interrupted
        /\ summary.fetched = RESULTS
        /\ summary.count = Len(summary.fetched)
        /\ summary.ok = Cardinality({i \in DOMAIN summary.fetched : summary.fetched[i].ok})
        /\ summary.skipped = Cardinality({i \in DOMAIN summary.fetched : summary.fetched[i].skipped})
        /\ Len(summary.fetched) >= Len(popped) - 1
        /\ Len(summary.fetched) <= Len(popped)
        /\ \A i \in DOMAIN summary.fetched :
             summary.fetched[i].url = popped[i] /\ summary.fetched[i].index = i

(* the signal arrived while a URL was being fetched, after a successful,   *)
(* a failed and a skipped result                                           *)
C26_Witness ==
    /\ fpc = "exited"
    /\ summary.count >= 3 /\ summary.ok >= 1 /\ summary.skipped >= 1
    /\ summary.count > summary.ok + summary.skipped
    /\ Len(popped) > summary.count

(* C28: within one run no URL is taken from the queue twice. *)
C28_NoUrlTwice ==
    \A i, j \in DOMAIN popped : i # j => popped[i] # popped[j]

(* the loop has ended: the queue is empty, the final summary is written,   *)
(* and RESULTS holds exactly one entry per URL taken from the queue        *)
FetchDone ==
    /\ fpc = "done" /\ queue = <<>>
    /\ summary.exists /\ ~summary.interrupted /\ summary.fetched = RESULTS
    /\ Len(RESULTS) = Len(popped)
    /\ \A i \in DOMAIN RESULTS : RESULTS[i].url = popped[i] /\ RESULTS[i].index = i

(* C29: when no signal arrives the fetch loop terminates: no URL gets more *)
(* than max_retries attempts, and eventually the queue is empty, every URL *)
(* taken from it has exactly one entry in RESULTS, and the final summary   *)
(* is written.                                                             *)
C29_Terminates ==
    /\ [](cur.attempt <= max_retries)
    /\ <>FetchDone

(* a finished run in which links were queued, a URL was skipped and the    *)
(* last URL was retried                                                    *)
C29_Witness ==
    /\ FetchDone
    /\ Len(RESULTS) >= 4
    /\ \E u \in DOMAIN depth : depth[u] >= 1
    /\ \E i \in DOMAIN RESULTS : RESULTS[i].skipped
    /\ cur.retried # {} /\ cur.attempt = max_retries

====
